---- MODULE Spec2Model ----
(***************************************************************************)
(* Model of the LangGraph-based trend-analysis workflow                    *)
(* (src/app/workflow_graph.py) and of the collaborators it drives.         *)
(*                                                                         *)
(* Python values are tagged records, so that None, the empty string and a  *)
(* non-empty string stay three different things: a string is a sequence of *)
(* tokens (an f-string is the concatenation of its parts).                 *)
(***************************************************************************)
EXTENDS Integers, Sequences, FiniteSets, TLC

VARIABLES
    state,      \* TrendAnalysisGraphWorkflow.state: None or the dict stored by setup
    pc,         \* "idle": no run in progress; "running": inside graph.invoke
    chan,       \* the graph's channel values (the state handed to the nodes)
    sched,      \* the nodes of the current superstep
    todo,       \* the nodes of the current superstep that have not run yet
    writes,     \* the state dicts returned by the nodes that ran in this superstep
    exc,        \* the exception a node of this superstep let escape, or None
    outcome,    \* how the last call of run ended: returned a path / raised
    trace,      \* history: one entry per node execution of the current run
    msgs,       \* history: the progress messages delivered in the current run
    lastSetup,  \* history: the arguments of the latest setup call
    lastOp,     \* history: the latest call on the engine ("resetup": a setup that
                \* replaced a different stored state; "rerun": a run that follows
                \* a run with no setup in between)
    runArg,     \* history: the callback argument of the latest call of run
    rin,        \* router probe: the state dict given to should_handle_error
    rout,       \* router probe: what should_handle_error returned
    rafter,     \* router probe: the state dict after the call
    cvIn,       \* converter: the arguments of convert and what the platform does
    files,      \* converter: the files of the output directory, path -> bytes
    cvOut,      \* converter: what convert returned or raised
    cvRead,     \* converter: the text read back from the returned path
    tool,       \* search: the WebSearchTool object, or None before it is built
    sIn,        \* search: the environment and the arguments of search
    sOut,       \* search: what search returned
    clientCalls, \* search: how many times the external client was called
    env,        \* os.getenv("OPENAI_API_KEY"): the text-generation credential
    app,        \* entry point: the position of app.run ("off": not started)
    console,    \* entry point: what app.run has printed
    registry,   \* documents: the "documents" list of data/rag/metadata.json
    disk,       \* documents: the files that exist
    docOut,     \* documents: the latest call, its result and what it found
    rs,         \* research: where search_field_information stands
    clock,      \* research: the time
    extLog,     \* research: the external search calls made so far
    plain,      \* plain workflow: the attributes of the TrendAnalysisWorkflow
    prun        \* plain workflow: the run under way or over

vars == <<state, pc, chan, sched, todo, writes, exc, outcome, trace, msgs,
          lastSetup, lastOp, runArg, rin, rout, rafter,
          cvIn, files, cvOut, cvRead, tool, sIn, sOut, clientCalls,
          env, app, console, registry, disk, docOut, rs, clock, extLog,
          plain, prun>>

engineVars == <<state, pc, chan, sched, todo, writes, exc, outcome, trace, msgs,
                lastSetup, lastOp, runArg>>

probeVars == <<rin, rout, rafter>>

converterVars == <<cvIn, files, cvOut, cvRead>>

searchVars == <<tool, sIn, sOut, clientCalls>>

appVars == <<env, app, console>>

\* the variables of the components specified further down
docVars == <<registry, disk, docOut>>

researchVars == <<rs, clock, extLog>>

plainVars == <<plain, prun>>

laterVars == <<appVars, docVars, researchVars, plainVars>>

toolVars == <<converterVars, searchVars, laterVars>>

-----------------------------------------------------------------------------
(* Bounds *)

\* longest list of topic tags given to setup
MaxFields == 1

\* longest list of RAG documents given to setup
MaxDocs == 1

\* most arguments of one setup call that differ from their default
MaxNonDefault == 1

\* longest markdown text handed to the converter
MaxTextLen == 3

\* largest result count asked of the search tool
MaxCount == 6

\* most web results in one response of the search client
MaxResults == 2

-----------------------------------------------------------------------------
(* Python values *)

None == [tag |-> "None"]

Str(s) == [tag |-> "str", val |-> s]

List(s) == [tag |-> "list", val |-> s]

Dict(d) == [tag |-> "dict", val |-> d]

Fn(id) == [tag |-> "fn", id |-> id]

Exception(kind, msg) == [tag |-> "exc", kind |-> kind, msg |-> msg]

\* Python truthiness: None, "" and [] are false, everything else is true
Truthy(v) ==
    CASE v.tag = "None" -> FALSE
      [] v.tag = "str"  -> v.val # <<>>
      [] v.tag = "list" -> v.val # <<>>
      [] OTHER          -> TRUE

\* Python's `a or b`
PyOr(a, b) == IF Truthy(a) THEN a ELSE b

\* str(v) inside an f-string
PyStr(v) ==
    CASE v.tag = "None" -> <<"None">>
      [] v.tag = "str"  -> v.val
      [] v.tag = "exc"  -> v.msg
      [] OTHER          -> <<"<object>">>

-----------------------------------------------------------------------------
(* Input domains *)

TECH_FIELDS == {"ai", "robotics"}

REPORT_FORMATS == {"md", "pdf", "docx"}

REPORT_LANGUAGES == {"ko", "en"}

ANALYSIS_DEPTH == {"standard", "deep"}

\* formats a caller may hand to setup: setup validates nothing
Formats == REPORT_FORMATS \cup {"xml"}

SeqsUpTo(S, n) == UNION {[1..k -> S] : k \in 0..n}

FieldLists == SeqsUpTo(TECH_FIELDS, MaxFields) \ {<<>>}

DocNames == {"doc1.pdf"}

DocLists == {None} \cup {List(d) : d \in SeqsUpTo(DocNames, MaxDocs)}

Callbacks == {Fn("cb1"), Fn("cb2")}

OptCallbacks == {None} \cup Callbacks

\* what an invoked callback may do
CbOutcomes == {"returns", "raises"}

CallbackError == Exception("CallbackError", <<"callback failed">>)

\* the str(e) of a collaborator's failure; it may be empty
Causes == {<<>>, <<"quota exceeded">>}

AllParams ==
    [fields : FieldLists, format : Formats, language : REPORT_LANGUAGES,
     depth : ANALYSIS_DEPTH, rag_enabled : BOOLEAN, rag_docs : DocLists,
     callback : OptCallbacks]

\* the defaults of the input prompts and of setup's signature
DefaultParams ==
    [fields |-> <<"ai">>, format |-> "md", language |-> "ko", depth |-> "standard",
     rag_enabled |-> FALSE, rag_docs |-> None, callback |-> None]

\* the argument tuples given to setup: those that differ from the defaults in
\* at most MaxNonDefault arguments
NearDefault ==
    {p \in AllParams :
        Cardinality({k \in DOMAIN p : p[k] # DefaultParams[k]}) <= MaxNonDefault}

Params == {p : p \in NearDefault}

NoParams == [tag |-> "None"]

-----------------------------------------------------------------------------
(* Collaborators: what a call to one of them may produce *)

Returned(v) == [ok |-> TRUE, val |-> v]

Raised(e) == [ok |-> FALSE, exc |-> e]

\* an agent (its construction, set_task_parameters and the LLM call) either
\* returns text or raises
AgentOutcomes(text) ==
    {Returned(text)} \cup {Raised(Exception("Exception", c)) : c \in Causes}

CoordinatorAgent_create_analysis_plan(fields, language, depth) ==
    Dict([fields |-> fields, language |-> language, depth |-> depth,
          plan |-> <<"PLAN">>])

\* BaseAgent.__init__ without a credential
MissingKeyError == Exception("ValueError", <<"OPENAI_API_KEY is not set">>)

\* what an agent may do given the credential key: without one its
\* construction raises
AgentMay(key, outcomes) == IF Truthy(key) THEN outcomes ELSE {Raised(MissingKeyError)}

PlanOutcomes(s) ==
    AgentOutcomes(CoordinatorAgent_create_analysis_plan(s.fields, s.language, s.depth))

ResearchOutcomes == AgentOutcomes(Str(<<"RESEARCH">>))

ReportOutcomes == AgentOutcomes(Str(<<"REPORT">>))

\* the file system under the converter: writing the file works or fails
IoOutcomes == {"written"} \cup {"io error"}

Extension(format) == <<".", format>>

\* mutant of ReportConverter_convert: a format it does not know is saved as
\* markdown
ReportConverter_convert_fallback(markdown_content, format, filename, io) ==
    IF markdown_content.tag # "str"
    THEN Raised(Exception("TypeError", <<"not a string">>))
    ELSE IF io # "written"
    THEN Raised(Exception("OSError", <<io>>))
    ELSE IF format \notin {"md", "pdf", "docx"}
    THEN Returned(Str(<<"output/">> \o filename \o <<".", "md">>))
    ELSE Returned(Str(<<"output/">> \o filename \o <<".", format>>))

ReportConverter_convert(markdown_content, format, filename, io) ==
    IF format \notin {"md", "pdf", "docx"}
    THEN Raised(Exception("ValueError", <<"unsupported format: ", format>>))
    ELSE IF markdown_content.tag # "str"
    THEN Raised(Exception("TypeError", <<"not a string">>))
    ELSE IF io # "written"
    THEN Raised(Exception("OSError", <<io>>))
    ELSE Returned(Str(<<"output/">> \o filename \o Extension(format)))

-----------------------------------------------------------------------------
(* The node functions of the graph                                         *)
(*                                                                         *)
(* A node function takes the state dict it is handed and what its          *)
(* environment does (cb: what the callback does when invoked; collab: what *)
(* the collaborator does when called) and yields                           *)
(*   ret           the dict it returns                                     *)
(*   raised        the exception that leaves it, or None                   *)
(*   msgs          the callback invocations it made                        *)
(*   cbRaised      whether a callback invocation raised                    *)
(*   collabCalled  whether it reached its collaborator                     *)
(*   collabFailed  whether its collaborator raised                         *)

StateKeys ==
    {"fields", "format", "language", "depth", "rag_enabled", "rag_docs",
     "analysis_plan", "research_results", "report", "output_path", "status",
     "error", "callback"}

\* state["callback"](text), guarded by `if state.get("callback")`
Notify(s, text) ==
    IF Truthy(s.callback) THEN <<[cb |-> s.callback.id, text |-> text]>> ELSE <<>>

\* the callback, invoked outside any try block, raises: the node is left at once
Escapes(s, text) ==
    [ret |-> s, raised |-> CallbackError, msgs |-> Notify(s, text),
     cbRaised |-> TRUE, collabCalled |-> FALSE, collabFailed |-> FALSE]

\* the node returns s1 after having called its collaborator
Returns(s1, m, failed) ==
    [ret |-> s1, raised |-> None, msgs |-> m,
     cbRaised |-> FALSE, collabCalled |-> TRUE, collabFailed |-> failed]

PlanStartMsg == <<"creating analysis plan...">>

PlanErrorPrefix == <<"error while creating analysis plan: ">>

\* mutant of create_analysis_plan: the error message is str(e) alone
create_analysis_plan_bare_message(s, cb, collab) ==
    IF Truthy(s.callback) /\ cb = "raises"
    THEN Escapes(s, PlanStartMsg)
    ELSE IF collab.ok
    THEN Returns([s EXCEPT !.analysis_plan = collab.val,
                           !.status = "analysis_plan_created",
                           !.error = None],
                 Notify(s, PlanStartMsg), FALSE)
    ELSE Returns([s EXCEPT !.error = Str(PyStr(collab.exc)),
                           !.status = "error"],
                 Notify(s, PlanStartMsg), TRUE)

create_analysis_plan(s, cb, collab) ==
    IF Truthy(s.callback) /\ cb = "raises"
    THEN Escapes(s, PlanStartMsg)
    ELSE IF collab.ok
    THEN Returns([s EXCEPT !.analysis_plan = collab.val,
                           !.status = "analysis_plan_created",
                           !.error = None],
                 Notify(s, PlanStartMsg), FALSE)
    ELSE Returns([s EXCEPT !.error = Str(PlanErrorPrefix \o PyStr(collab.exc)),
                           !.status = "error"],
                 Notify(s, PlanStartMsg), TRUE)

ResearchStartMsg == <<"performing research...">>

ResearchErrorPrefix == <<"error while performing research: ">>

\* mutant of perform_research: the except branch stores the failure text as the
\* research result
perform_research_partial(s, cb, collab) ==
    IF Truthy(s.callback) /\ cb = "raises"
    THEN Escapes(s, ResearchStartMsg)
    ELSE IF collab.ok
    THEN Returns([s EXCEPT !.research_results = collab.val,
                           !.status = "research_completed",
                           !.error = None],
                 Notify(s, ResearchStartMsg), FALSE)
    ELSE Returns([s EXCEPT !.research_results = Str(PyStr(collab.exc)),
                           !.error = Str(ResearchErrorPrefix \o PyStr(collab.exc)),
                           !.status = "error"],
                 Notify(s, ResearchStartMsg), TRUE)

perform_research(s, cb, collab) ==
    IF Truthy(s.callback) /\ cb = "raises"
    THEN Escapes(s, ResearchStartMsg)
    ELSE IF collab.ok
    THEN Returns([s EXCEPT !.research_results = collab.val,
                           !.status = "research_completed",
                           !.error = None],
                 Notify(s, ResearchStartMsg), FALSE)
    ELSE Returns([s EXCEPT !.error = Str(ResearchErrorPrefix \o PyStr(collab.exc)),
                           !.status = "error"],
                 Notify(s, ResearchStartMsg), TRUE)

ReportStartMsg == <<"generating report...">>

ReportErrorPrefix == <<"error while generating report: ">>

\* mutant of generate_report: the except branch records the error and leaves
\* the status as it found it
generate_report_keeps_status(s, cb, collab) ==
    IF Truthy(s.callback) /\ cb = "raises"
    THEN Escapes(s, ReportStartMsg)
    ELSE IF collab.ok
    THEN Returns([s EXCEPT !.report = collab.val,
                           !.status = "report_generated",
                           !.error = None],
                 Notify(s, ReportStartMsg), FALSE)
    ELSE Returns([s EXCEPT !.error = Str(ReportErrorPrefix \o PyStr(collab.exc))],
                 Notify(s, ReportStartMsg), TRUE)

generate_report(s, cb, collab) ==
    IF Truthy(s.callback) /\ cb = "raises"
    THEN Escapes(s, ReportStartMsg)
    ELSE IF collab.ok
    THEN Returns([s EXCEPT !.report = collab.val,
                           !.status = "report_generated",
                           !.error = None],
                 Notify(s, ReportStartMsg), FALSE)
    ELSE Returns([s EXCEPT !.error = Str(ReportErrorPrefix \o PyStr(collab.exc)),
                           !.status = "error"],
                 Notify(s, ReportStartMsg), TRUE)

ConvertStartMsg(s) == <<"converting report to ", s.format, " format...">>

ConvertErrorPrefix == <<"error while converting report: ">>

CompleteMsg(output_path) == <<"workflow complete: ">> \o PyStr(output_path)

\* time.strftime("%Y%m%d_%H%M%S")
Timestamps == {"20250101_000000"}

Filename(timestamp) == <<"tech_trend_report_", timestamp>>

\* mutant of convert_report: the except block records the error and leaves the
\* status as the try block set it
convert_report_keeps_completed(s, cb, cb2, io, timestamp) ==
    IF Truthy(s.callback) /\ cb = "raises"
    THEN Escapes(s, <<"converting report to ", s.format, " format...">>)
    ELSE LET conv == ReportConverter_convert(s.report, s.format,
                                             <<"tech_trend_report_", timestamp>>, io)
             s1   == [s EXCEPT !.output_path = conv.val,
                               !.status = "completed",
                               !.error = None]
             m    == Notify(s, <<"converting report to ", s.format, " format...">>)
             m2   == Notify(s1, <<"workflow complete: ">> \o PyStr(s1.output_path))
         IN  IF ~conv.ok
             THEN Returns([s EXCEPT !.error = Str(<<"error while converting report: ">>
                                                  \o PyStr(conv.exc))],
                          m, TRUE)
             ELSE IF Truthy(s1.callback) /\ cb2 = "raises"
             THEN [Returns([s1 EXCEPT !.error = Str(<<"error while converting report: ">>
                                                    \o PyStr(CallbackError))],
                           m \o m2, FALSE)
                   EXCEPT !.cbRaised = TRUE]
             ELSE Returns(s1, m \o m2, FALSE)

\* cb2 is what the callback does on its second invocation (the completion
\* message), which happens inside the try block
convert_report(s, cb, cb2, io, timestamp) ==
    IF Truthy(s.callback) /\ cb = "raises"
    THEN Escapes(s, ConvertStartMsg(s))
    ELSE LET conv == ReportConverter_convert(s.report, s.format, Filename(timestamp), io)
             s1   == [s EXCEPT !.output_path = conv.val,
                               !.status = "completed",
                               !.error = None]
         IN  IF ~conv.ok
             THEN Returns([s EXCEPT !.error = Str(ConvertErrorPrefix \o PyStr(conv.exc)),
                                    !.status = "error"],
                          Notify(s, ConvertStartMsg(s)), TRUE)
             ELSE IF Truthy(s1.callback) /\ cb2 = "raises"
             THEN [Returns([s1 EXCEPT !.error = Str(ConvertErrorPrefix \o PyStr(CallbackError)),
                                      !.status = "error"],
                           Notify(s, ConvertStartMsg(s)) \o Notify(s1, CompleteMsg(s1.output_path)),
                           FALSE)
                   EXCEPT !.cbRaised = TRUE]
             ELSE Returns(s1,
                          Notify(s, ConvertStartMsg(s)) \o Notify(s1, CompleteMsg(s1.output_path)),
                          FALSE)

ErrorMsg(s) == <<"error: ">> \o PyStr(s.error)

\* mutant of handle_error: the node marks the state as terminated
handle_error_marks(s, cb) ==
    IF Truthy(s.callback) /\ cb = "raises"
    THEN Escapes(s, <<"error: ">> \o PyStr(s.error))
    ELSE [Returns([s EXCEPT !.status = "terminated"],
                  Notify(s, <<"error: ">> \o PyStr(s.error)), FALSE)
          EXCEPT !.collabCalled = FALSE]

handle_error(s, cb) ==
    IF Truthy(s.callback) /\ cb = "raises"
    THEN Escapes(s, ErrorMsg(s))
    ELSE [Returns(s, Notify(s, ErrorMsg(s)), FALSE) EXCEPT !.collabCalled = FALSE]

EndMsg == <<"workflow end">>

end_workflow(s, cb) ==
    IF Truthy(s.callback) /\ cb = "raises"
    THEN Escapes(s, EndMsg)
    ELSE [Returns(s, Notify(s, EndMsg), FALSE) EXCEPT !.collabCalled = FALSE]

\* mutant of should_handle_error: the router never takes the error path
should_handle_error_never(s) == "continue"

\* mutant of should_handle_error: `is not None` instead of truthiness
should_handle_error_not_none(s) == IF s.error # None THEN "error" ELSE "continue"

\* the routing function of the conditional edges
should_handle_error(s) == IF Truthy(s.error) THEN "error" ELSE "continue"

-----------------------------------------------------------------------------
(* The graph built by TrendAnalysisGraphWorkflow.__init__                  *)

END == "__end__"

EntryPoint == "create_plan"

Nodes ==
    {"create_plan", "perform_research", "generate_report", "convert_report",
     "handle_error", "end_workflow"}

Stages == {"create_plan", "perform_research", "generate_report", "convert_report"}

\* builder.add_edge(a, b): b runs in the superstep after a, unconditionally
Edges ==
    {<<"create_plan", "perform_research">>,
     <<"perform_research", "generate_report">>,
     <<"generate_report", "convert_report">>,
     <<"convert_report", "end_workflow">>,
     <<"handle_error", END>>,
     <<"end_workflow", END>>}

\* builder.add_conditional_edges(a, should_handle_error, path_map): the node the
\* path map gives for the router's answer runs in the superstep after a
ConditionalEdges ==
    [create_plan      |-> [error |-> "handle_error", continue |-> "perform_research"],
     perform_research |-> [error |-> "handle_error", continue |-> "generate_report"],
     generate_report  |-> [error |-> "handle_error", continue |-> "convert_report"],
     convert_report   |-> [error |-> "handle_error", continue |-> "end_workflow"]]

\* the nodes that node n, having returned ret, triggers for the next superstep:
\* the targets of all its edges and of its conditional edge
Triggered(n, ret) ==
    {e[2] : e \in {d \in Edges : d[1] = n}}
    \cup (IF n \in DOMAIN ConditionalEdges
          THEN {ConditionalEdges[n][should_handle_error(ret)]}
          ELSE {})

\* every state key is a last-value channel (the annotation of `fields` is a
\* string, not a reducer): a channel takes one write per superstep
Conflict(ws) ==
    \E k \in StateKeys : Cardinality({w \in ws : k \in DOMAIN w.ret}) > 1

InvalidUpdateError ==
    Exception("InvalidUpdateError", <<"Can receive only one value per step">>)

\* the channel values after the superstep's writes (at most one per key)
Applied(c, ws) ==
    [k \in StateKeys |->
        IF \E w \in ws : k \in DOMAIN w.ret
        THEN (CHOOSE w \in ws : k \in DOMAIN w.ret).ret[k]
        ELSE c[k]]

NextNodes(ws) == (UNION {Triggered(w.node, w.ret) : w \in ws}) \ {END}

-----------------------------------------------------------------------------
(* The engine: setup and run                                               *)

NoOutcome == [kind |-> "none"]

ReturnedPath(p) == [kind |-> "returned", val |-> p]

RaisedError(e) == [kind |-> "raised", exc |-> e]

NotInitializedError ==
    Exception("ValueError", <<"workflow not initialized; call setup() first">>)

ReportFailedError == Exception("ValueError", <<"report generation failed">>)

\* the dict setup builds
initial_state(p) ==
    [format           |-> p.format,
     language         |-> p.language,
     depth            |-> p.depth,
     rag_enabled      |-> p.rag_enabled,
     rag_docs         |-> PyOr(p.rag_docs, List(<<>>)),
     analysis_plan    |-> None,
     research_results |-> None,
     report           |-> None,
     output_path      |-> None,
     status           |-> "initialized",
     error            |-> None,
     callback         |-> p.callback,
     fields           |-> p.fields]

\* copy.deepcopy(self.state): an equal, independent value
deepcopy(s) == s

\* convert has not been called yet / the file has not been read yet
NotCalled == [tag |-> "unset"]

NotRead == [tag |-> "unread"]

\* search has not been called yet
NotSearched == [tag |-> "unset"]

\* the engine as constructed: no stored state, no run
EngineIdle ==
    /\ state = None
    /\ pc = "idle"
    /\ chan = None
    /\ sched = {}
    /\ todo = {}
    /\ writes = {}
    /\ exc = None
    /\ outcome = NoOutcome
    /\ trace = <<>>
    /\ msgs = <<>>
    /\ lastSetup = NoParams
    /\ lastOp = "init"
    /\ runArg = None

\* no router call under observation
ProbeIdle ==
    /\ rin = None
    /\ rout = "unset"
    /\ rafter = None

\* no converter call under observation, an empty output directory
ConverterIdle ==
    /\ cvIn = None
    /\ files = <<>>
    /\ cvOut = NotCalled
    /\ cvRead = NotRead

\* no search tool built, no search under observation
SearchIdle ==
    /\ tool = None
    /\ sIn = None
    /\ sOut = NotSearched
    /\ clientCalls = 0

\* the credential is configured; the entry point is not in use
AppIdle ==
    /\ env = Str(<<"sk-key">>)
    /\ app = "off"
    /\ console = <<>>

\* no document registered, no document manager call made
DocIdle ==
    /\ registry = <<>>
    /\ disk = {}
    /\ docOut = NotCalled

\* no research under way, no external search call made
ResearchIdle ==
    /\ rs = None
    /\ clock = 0
    /\ extLog = [n |-> 0, lastEnd |-> 0, gaps |-> {}]

\* no plain workflow constructed
PlainIdle ==
    /\ plain = None
    /\ prun = None

\* the components specified further down are not in use
LaterIdle == AppIdle /\ DocIdle /\ ResearchIdle /\ PlainIdle

Init ==
    /\ EngineIdle
    /\ ProbeIdle
    /\ ConverterIdle
    /\ SearchIdle
    /\ LaterIdle

\* the values of lastOp that stand for a call of run
Runs == {"run", "rerun"}

\* the history of a run is dropped when the engine is called again
NoRun ==
    /\ chan' = None
    /\ sched' = {}
    /\ todo' = {}
    /\ writes' = {}
    /\ exc' = None
    /\ trace' = <<>>
    /\ msgs' = <<>>

\* mutant of setup: an omitted callback keeps the one stored before
setup_keeps_callback(old, p) ==
    IF old # None
    THEN [initial_state(p) EXCEPT !.callback = PyOr(p.callback, old.callback)]
    ELSE initial_state(p)

\* what setup stores for the arguments p, whatever was stored before
setup(old, p) == initial_state(p)

Setup ==
    /\ pc = "idle"
    /\ \E p \in Params :
        /\ state' = setup(state, p)
        /\ lastSetup' = p
    /\ lastOp' = IF state # None /\ state' # state THEN "resetup" ELSE "setup"
    /\ runArg' = None
    /\ outcome' = NoOutcome
    /\ NoRun
    /\ UNCHANGED <<pc, probeVars, toolVars>>

\* mutant of run_store: run stores nothing
run_store_nothing(old, callback) == old

\* mutant of run_store: a callback passed to run is stored only when none is
\* stored yet
run_store_keeps(old, callback) ==
    IF Truthy(callback) /\ old # None /\ ~Truthy(old.callback)
    THEN [old EXCEPT !.callback = callback]
    ELSE old

\* the head of run, up to the deep copy: the stored state after it
run_store(old, callback) ==
    IF Truthy(callback) /\ old # None
    THEN [old EXCEPT !.callback = callback]
    ELSE old

\* mutant of RunNotInitialized: the callback is told that the workflow starts
\* before the stored state is looked at
RunNotInitialized_notifies ==
    /\ pc = "idle"
    /\ \E callback \in OptCallbacks :
        /\ run_store(state, callback) = None
        /\ state' = run_store(state, callback)
        /\ runArg' = callback
        /\ msgs' = Notify([callback |-> callback], <<"workflow start">>)
    /\ outcome' = RaisedError(NotInitializedError)
    /\ lastOp' = IF lastOp \in Runs THEN "rerun" ELSE "run"
    /\ chan' = None
    /\ sched' = {}
    /\ todo' = {}
    /\ writes' = {}
    /\ exc' = None
    /\ trace' = <<>>
    /\ UNCHANGED <<pc, lastSetup, probeVars, toolVars>>

\* run(callback) on an engine that was never set up
RunNotInitialized ==
    /\ pc = "idle"
    /\ \E callback \in OptCallbacks :
        /\ run_store(state, callback) = None
        /\ state' = run_store(state, callback)
        /\ runArg' = callback
    /\ outcome' = RaisedError(NotInitializedError)
    /\ lastOp' = IF lastOp \in Runs THEN "rerun" ELSE "run"
    /\ NoRun
    /\ UNCHANGED <<pc, lastSetup, probeVars, toolVars>>

\* run(callback) on an engine that was set up: store the callback, copy the
\* state, enter graph.invoke
RunBegins(callback) ==
    /\ pc = "idle"
    /\ run_store(state, callback) # None
    /\ state' = run_store(state, callback)
    /\ runArg' = callback
    /\ chan' = deepcopy(run_store(state, callback))
    /\ pc' = "running"
    /\ sched' = {EntryPoint}
    /\ todo' = {EntryPoint}
    /\ writes' = {}
    /\ exc' = None
    /\ outcome' = NoOutcome
    /\ trace' = <<>>
    /\ msgs' = <<>>
    /\ lastOp' = IF lastOp \in Runs THEN "rerun" ELSE "run"
    /\ UNCHANGED lastSetup

\* run(callback), called on the engine directly
RunStart ==
    /\ \E callback \in OptCallbacks : RunBegins(callback)
    /\ UNCHANGED <<probeVars, toolVars>>

\* the state dict with no callback in it
Quiet(s) == [s EXCEPT !.callback = None]

\* node n of the current superstep has run with result r; q is what it would
\* have returned on the same state without a callback (history only)
NodeDone(n, r, q) ==
    /\ todo' = todo \ {n}
    /\ writes' = IF r.raised = None
                 THEN writes \cup {[node |-> n, ret |-> r.ret]}
                 ELSE writes
    /\ exc' = IF exc = None THEN r.raised ELSE exc
    /\ trace' = Append(trace, [node |-> n, arg |-> chan, ret |-> r.ret,
                               raised |-> r.raised # None,
                               cbRaised |-> r.cbRaised,
                               collabCalled |-> r.collabCalled,
                               collabFailed |-> r.collabFailed,
                               quiet |-> q.ret])
    /\ msgs' = msgs \o r.msgs
    /\ UNCHANGED <<state, pc, chan, sched, outcome, lastSetup, lastOp, runArg, probeVars, toolVars>>

CanRun(n) == pc = "running" /\ n \in todo

CreatePlan ==
    /\ CanRun("create_plan")
    /\ \E cb \in CbOutcomes, collab \in AgentMay(env, PlanOutcomes(chan)) :
        NodeDone("create_plan", create_analysis_plan(chan, cb, collab),
                 create_analysis_plan(Quiet(chan), cb, collab))

PerformResearch ==
    /\ CanRun("perform_research")
    /\ \E cb \in CbOutcomes, collab \in AgentMay(env, ResearchOutcomes) :
        NodeDone("perform_research", perform_research(chan, cb, collab),
                 perform_research(Quiet(chan), cb, collab))

GenerateReport ==
    /\ CanRun("generate_report")
    /\ \E cb \in CbOutcomes, collab \in AgentMay(env, ReportOutcomes) :
        NodeDone("generate_report", generate_report(chan, cb, collab),
                 generate_report(Quiet(chan), cb, collab))

ConvertReport ==
    /\ CanRun("convert_report")
    /\ \E cb \in CbOutcomes, cb2 \in CbOutcomes, io \in IoOutcomes, ts \in Timestamps :
        NodeDone("convert_report", convert_report(chan, cb, cb2, io, ts),
                 convert_report(Quiet(chan), cb, cb2, io, ts))

HandleError ==
    /\ CanRun("handle_error")
    /\ \E cb \in CbOutcomes :
        NodeDone("handle_error", handle_error(chan, cb), handle_error(Quiet(chan), cb))

EndWorkflow ==
    /\ CanRun("end_workflow")
    /\ \E cb \in CbOutcomes :
        NodeDone("end_workflow", end_workflow(chan, cb), end_workflow(Quiet(chan), cb))

\* the superstep is over without an error and triggers further nodes
ApplyWrites ==
    /\ pc = "running" /\ todo = {} /\ exc = None
    /\ ~Conflict(writes)
    /\ NextNodes(writes) # {}
    /\ chan' = Applied(chan, writes)
    /\ sched' = NextNodes(writes)
    /\ todo' = NextNodes(writes)
    /\ writes' = {}
    /\ UNCHANGED <<state, pc, exc, outcome, trace, msgs, lastSetup, lastOp, runArg, probeVars, toolVars>>

\* mutant of run_result: the report text is returned instead of the path
run_result_report(result) ==
    IF Truthy(result.output_path)
    THEN ReturnedPath(result.report)
    ELSE RaisedError(ReportFailedError)

\* what run does with the dict graph.invoke returned
run_result(result) ==
    IF Truthy(result.output_path)
    THEN ReturnedPath(result.output_path)
    ELSE RaisedError(ReportFailedError)

\* mutant of InvokeReturns: run keeps the dict graph.invoke returned as the
\* engine's state
InvokeReturns_stores ==
    /\ pc = "running" /\ todo = {} /\ exc = None
    /\ ~Conflict(writes)
    /\ NextNodes(writes) = {}
    /\ chan' = Applied(chan, writes)
    /\ state' = Applied(chan, writes)
    /\ outcome' = run_result(Applied(chan, writes))
    /\ pc' = "idle"
    /\ writes' = {}
    /\ UNCHANGED <<sched, todo, exc, trace, msgs, lastSetup, lastOp, runArg, probeVars, toolVars>>

\* the superstep is over and triggers nothing but END: graph.invoke returns
InvokeReturns ==
    /\ pc = "running" /\ todo = {} /\ exc = None
    /\ ~Conflict(writes)
    /\ NextNodes(writes) = {}
    /\ chan' = Applied(chan, writes)
    /\ outcome' = run_result(Applied(chan, writes))
    /\ pc' = "idle"
    /\ writes' = {}
    /\ UNCHANGED <<state, sched, todo, exc, trace, msgs, lastSetup, lastOp, runArg, probeVars, toolVars>>

\* graph.invoke raises: a node let an exception escape (the other nodes of the
\* superstep may or may not have run by then), or two nodes of the superstep
\* wrote the same channel; run prints and re-raises
InvokeRaises ==
    /\ pc = "running"
    /\ \/ /\ exc # None
          /\ outcome' = RaisedError(exc)
       \/ /\ exc = None /\ todo = {} /\ Conflict(writes)
          /\ outcome' = RaisedError(InvalidUpdateError)
    /\ pc' = "idle"
    /\ UNCHANGED <<state, chan, sched, todo, writes, exc, trace, msgs, lastSetup, lastOp,
                   runArg, probeVars, toolVars>>

Next ==
    \/ Setup
    \/ RunNotInitialized
    \/ RunStart
    \/ CreatePlan
    \/ PerformResearch
    \/ GenerateReport
    \/ ConvertReport
    \/ HandleError
    \/ EndWorkflow
    \/ ApplyWrites
    \/ InvokeReturns
    \/ InvokeRaises

Spec == Init /\ [][Next]_vars

-----------------------------------------------------------------------------
(* The router on arbitrary state dicts                                     *)

Statuses ==
    {"initialized", "analysis_plan_created", "research_completed",
     "report_generated", "completed", "error"}

\* any string at all: unset, empty, or some text
OptTexts == {None, Str(<<>>), Str(<<"text">>)}

ProbeStates ==
    [fields : {<<"ai">>}, format : {"md"}, language : {"ko"}, depth : {"standard"},
     rag_enabled : {FALSE}, rag_docs : {List(<<>>)},
     analysis_plan : {None, Dict(<<>>)}, research_results : OptTexts,
     report : OptTexts, output_path : OptTexts, status : Statuses,
     error : OptTexts, callback : OptCallbacks]

InitRouter ==
    /\ EngineIdle
    /\ rin \in ProbeStates
    /\ rout = "unset"
    /\ rafter = None
    /\ ConverterIdle
    /\ SearchIdle
    /\ LaterIdle

\* should_handle_error(rin): it reads state.get("error") and assigns nothing
RouterCall ==
    /\ rout = "unset"
    /\ rout' = should_handle_error(rin)
    /\ rafter' = rin
    /\ UNCHANGED <<rin, engineVars, toolVars>>

NextRouter == RouterCall

SpecRouter == InitRouter /\ [][NextRouter]_vars

-----------------------------------------------------------------------------
(* The converter and the file it writes (src/app/tools/converter.py)       *)
(*                                                                         *)
(* A text is a sequence of characters, a file a sequence of bytes. The     *)
(* file is opened in text mode with encoding utf-8, so writing translates  *)
(* every line feed to the platform's line separator and then encodes.      *)

\* a letter, a Hangul syllable, line feed, carriage return, and a lone
\* surrogate (a character of a Python str that UTF-8 cannot encode)
Chars == {"a", "U+AC00", "\n", "\r", "U+D800"}

Texts == SeqsUpTo(Chars, MaxTextLen)

\* os.name
Platforms == {"posix", "nt"}

\* os.linesep
linesep(platform) == IF platform = "nt" THEN <<"\r", "\n">> ELSE <<"\n">>

\* what a text-mode file does to the text written to it (newline=None)
RECURSIVE translate_out(_, _)
translate_out(t, sep) ==
    IF t = <<>> THEN <<>>
    ELSE (IF Head(t) = "\n" THEN sep ELSE <<Head(t)>>) \o translate_out(Tail(t), sep)

\* str.encode("utf-8") can encode the text
Encodable(t) == \A i \in 1..Len(t) : t[i] # "U+D800"

\* the UTF-8 bytes of one character
utf8(ch) ==
    CASE ch = "a"      -> <<"61">>
      [] ch = "\n"     -> <<"0A">>
      [] ch = "\r"     -> <<"0D">>
      [] ch = "U+AC00" -> <<"EA", "B0", "80">>

RECURSIVE encode(_)
encode(t) == IF t = <<>> THEN <<>> ELSE utf8(Head(t)) \o encode(Tail(t))

\* bytes.decode("utf-8") of bytes that encode wrote
RECURSIVE decode(_)
decode(b) ==
    IF b = <<>> THEN <<>>
    ELSE IF Head(b) = "EA" THEN <<"U+AC00">> \o decode(SubSeq(b, 4, Len(b)))
    ELSE <<CASE Head(b) = "61" -> "a"
             [] Head(b) = "0A" -> "\n"
             [] Head(b) = "0D" -> "\r">> \o decode(Tail(b))

\* what a text-mode file does to the text read from it (universal newlines):
\* "\r\n" and a lone "\r" are read as "\n"
RECURSIVE translate_in(_)
translate_in(t) ==
    IF t = <<>> THEN <<>>
    ELSE IF Head(t) = "\r" /\ Len(t) >= 2 /\ t[2] = "\n"
    THEN <<"\n">> \o translate_in(SubSeq(t, 3, Len(t)))
    ELSE IF Head(t) = "\r"
    THEN <<"\n">> \o translate_in(Tail(t))
    ELSE <<Head(t)>> \o translate_in(Tail(t))

\* the file system fs with the bytes b stored at path
WriteFile(fs, path, b) ==
    [q \in DOMAIN fs \cup {path} |-> IF q = path THEN b ELSE fs[q]]

\* self.output_dir / f"{filename}{ext}"
OutputPath(filename, ext) == <<"output/">> \o filename \o ext

\* mutant of save_markdown: the text is written with print(content, file=f),
\* which adds a line feed
save_markdown_println(content, filename, platform, io, fs) ==
    LET output_path == <<"output/">> \o filename \o <<".md">>
    IN  IF io # "written"
        THEN [res |-> Raised(Exception("OSError", <<io>>)), files |-> fs]
        ELSE IF content.tag # "str"
        THEN [res |-> Raised(Exception("TypeError", <<"not a string">>)),
              files |-> WriteFile(fs, output_path, <<>>)]
        ELSE IF ~Encodable(content.val)
        THEN [res |-> Raised(Exception("UnicodeEncodeError", <<"surrogates not allowed">>)),
              files |-> WriteFile(fs, output_path, <<>>)]
        ELSE [res |-> Returned(Str(output_path)),
              files |-> WriteFile(fs, output_path,
                                  encode(translate_out(content.val \o <<"\n">>,
                                                       linesep(platform))))]

\* _save_markdown: open(output_path, "w", encoding="utf-8") creates or empties
\* the file, f.write(content) fills it; io is what open does
save_markdown(content, filename, platform, io, fs) ==
    LET output_path == OutputPath(filename, <<".md">>)
    IN  IF io # "written"
        THEN [res |-> Raised(Exception("OSError", <<io>>)), files |-> fs]
        ELSE IF content.tag # "str"
        THEN [res |-> Raised(Exception("TypeError", <<"not a string">>)),
              files |-> WriteFile(fs, output_path, <<>>)]
        ELSE IF ~Encodable(content.val)
        THEN [res |-> Raised(Exception("UnicodeEncodeError", <<"surrogates not allowed">>)),
              files |-> WriteFile(fs, output_path, <<>>)]
        ELSE [res |-> Returned(Str(output_path)),
              files |-> WriteFile(fs, output_path,
                                  encode(translate_out(content.val, linesep(platform))))]

\* the names the callers and the specification use for the markdown format,
\* and a name no one supports
FormatNames == {"md", "markdown", "xml"}

\* ReportConverter.convert for the formats of FormatNames
convert(markdown_content, format, filename, platform, io, fs) ==
    IF format = "md"
    THEN save_markdown(markdown_content, filename, platform, io, fs)
    ELSE [res |-> Raised(Exception("ValueError", <<"unsupported format: ", format>>)),
          files |-> fs]

\* how the file is read back: open(path, encoding="utf-8").read(), or
\* open(path, "rb").read().decode("utf-8")
ReadModes == {"text", "binary"}

read(fs, path, mode) ==
    IF mode = "text" THEN translate_in(decode(fs[path])) ELSE decode(fs[path])

ConverterCalls ==
    [markdown_content : {Str(t) : t \in Texts}, format : FormatNames,
     filename : {<<"x">>}, platform : Platforms, io : IoOutcomes]

InitConverter ==
    /\ EngineIdle
    /\ ProbeIdle
    /\ cvIn \in ConverterCalls
    /\ files = <<>>
    /\ cvOut = NotCalled
    /\ cvRead = NotRead
    /\ SearchIdle
    /\ LaterIdle

\* ReportConverter().convert(markdown_content, format, filename)
ConvertCall ==
    /\ cvOut = NotCalled
    /\ LET r == convert(cvIn.markdown_content, cvIn.format, cvIn.filename,
                        cvIn.platform, cvIn.io, files)
       IN  /\ cvOut' = r.res
           /\ files' = r.files
    /\ UNCHANGED <<cvIn, cvRead, engineVars, probeVars, searchVars, laterVars>>

\* the file at the returned path is read back
ReadBack ==
    /\ cvOut # NotCalled /\ cvOut.ok
    /\ cvRead = NotRead
    /\ \E mode \in ReadModes :
        cvRead' = [mode |-> mode, text |-> read(files, cvOut.val.val, mode)]
    /\ UNCHANGED <<cvIn, files, cvOut, engineVars, probeVars, searchVars, laterVars>>

NextConverter == ConvertCall \/ ReadBack

SpecConverter == InitConverter /\ [][NextConverter]_vars

-----------------------------------------------------------------------------
(* The web search tool (src/app/tools/search.py)                           *)

\* os.getenv("BRAVE_API_KEY"): not set, set to the empty string, set
ApiKeys == {None, Str(<<>>), Str(<<"key">>)}

Queries == {<<>>, <<"ai technology">>}

Counts == -1..MaxCount

\* an attribute the object does not have
Missing == [tag |-> "missing"]

\* an attribute whose access raises
Broken == [tag |-> "broken"]

\* the items of a response's web_results; getattr supplies the defaults, and
\* an item with an attribute that raises is skipped
WebItems ==
    {[title |-> Str(<<"Title">>), url |-> Str(<<"https://a">>), description |-> Str(<<"d">>)],
     [title |-> Missing, url |-> Missing, description |-> Missing],
     [title |-> Str(<<"Other">>), url |-> Broken, description |-> Missing]}

\* what self.client.search(q=query, count=count) does: it raises, or returns
\* a response without web_results, or with web_results None, or one with a
\* list of items
ClientOutcomes ==
    {[kind |-> "raises"], [kind |-> "response", web_results |-> Missing],
     [kind |-> "response", web_results |-> None]}
    \cup {[kind |-> "response", web_results |-> List(r)] : r \in SeqsUpTo(WebItems, MaxResults)}

\* getattr(item, name, default)
getattr(item, name, default) == IF item[name] = Missing THEN default ELSE item[name]

\* the five dicts built by _get_dummy_results for the query
dummy_results(query) ==
    <<[title |-> Str(<<"future technology trends: research on ">> \o query),
       url |-> Str(<<"https://example.com/research/1">>),
       description |-> Str(<<"research trends of ">> \o query \o <<" analysed">>)],
      [title |-> Str(query \o <<" industrial impact analysis">>),
       url |-> Str(<<"https://example.com/impact/2">>),
       description |-> Str(<<"the impact of ">> \o query \o <<" on industries">>)],
      [title |-> Str(<<"latest ">> \o query \o <<" patent trend report">>),
       url |-> Str(<<"https://example.com/patents/3">>),
       description |-> Str(<<"patent filings on ">> \o query \o <<" of the last 2 years">>)],
      [title |-> Str(query \o <<" startup investment trends">>),
       url |-> Str(<<"https://example.com/investment/4">>),
       description |-> Str(<<"venture capital in ">> \o query \o <<" startups">>)],
      [title |-> Str(<<"corporate ">> \o query \o <<" R&D strategy">>),
       url |-> Str(<<"https://example.com/strategy/5">>),
       description |-> Str(<<"R&D strategies of major companies in ">> \o query)]>>

\* min(a, b)
min(a, b) == IF a < b THEN a ELSE b

\* seq[:k] for a Python list: a negative k counts from the end
SliceTo(seq, k) ==
    IF k >= 0
    THEN SubSeq(seq, 1, min(k, Len(seq)))
    ELSE SubSeq(seq, 1, IF Len(seq) + k > 0 THEN Len(seq) + k ELSE 0)

\* mutant of get_dummy_results: the whole list is returned
get_dummy_results_all(query, count) == List(dummy_results(query))

\* _get_dummy_results: dummy_results[:min(count, len(dummy_results))]
get_dummy_results(query, count) ==
    List(SliceTo(dummy_results(query), min(count, Len(dummy_results(query)))))

\* WebSearchTool(): the client is built only for a non-empty key
WebSearchTool(api_key) ==
    [api_key |-> api_key,
     client |-> IF Truthy(api_key) THEN Str(<<"Brave">>) ELSE None,
     use_dummy_data |-> ~Truthy(api_key)]

\* the dicts search builds from the items of web_results
RECURSIVE web_dicts(_)
web_dicts(items) ==
    IF items = <<>> THEN <<>>
    ELSE IF \E k \in DOMAIN Head(items) : Head(items)[k] = Broken
    THEN web_dicts(Tail(items))
    ELSE <<[title |-> getattr(Head(items), "title", Str(<<"no title">>)),
            url |-> getattr(Head(items), "url", Str(<<>>)),
            description |-> getattr(Head(items), "description", Str(<<>>))]>>
         \o web_dicts(Tail(items))

\* mutant of search: after a failure of the client nothing is returned
search_empty_on_failure(t, query, count, client) ==
    IF t.use_dummy_data
    THEN [val |-> get_dummy_results(query, count), calls |-> 0]
    ELSE IF client.kind = "raises"
    THEN [val |-> List(<<>>), calls |-> 1]
    ELSE LET results == IF client.web_results.tag # "list"
                        THEN <<>>
                        ELSE web_dicts(client.web_results.val)
         IN  IF results = <<>>
             THEN [val |-> List(<<>>), calls |-> 1]
             ELSE [val |-> List(results), calls |-> 1]

\* search(query, count) on the tool t, client being what the external client
\* does if called: the list returned and the number of client calls made
search(t, query, count, client) ==
    IF t.use_dummy_data
    THEN [val |-> get_dummy_results(query, count), calls |-> 0]
    ELSE IF client.kind = "raises"
    THEN [val |-> get_dummy_results(query, count), calls |-> 1]
    ELSE LET results == IF client.web_results.tag # "list"
                        THEN <<>>
                        ELSE web_dicts(client.web_results.val)
         IN  IF results = <<>>
             THEN [val |-> get_dummy_results(query, count), calls |-> 1]
             ELSE [val |-> List(results), calls |-> 1]

SearchCalls ==
    [api_key : ApiKeys, query : Queries, count : Counts, client : ClientOutcomes]

InitSearch ==
    /\ EngineIdle
    /\ ProbeIdle
    /\ ConverterIdle
    /\ tool = None
    /\ sIn \in SearchCalls
    /\ sOut = NotSearched
    /\ clientCalls = 0
    /\ LaterIdle

\* tool = WebSearchTool()
Construct ==
    /\ tool = None
    /\ tool' = WebSearchTool(sIn.api_key)
    /\ UNCHANGED <<sIn, sOut, clientCalls, engineVars, probeVars, converterVars, laterVars>>

\* tool.search(query, count); it has no raise outside its try blocks
Search ==
    /\ tool # None
    /\ sOut = NotSearched
    /\ LET r == search(tool, sIn.query, sIn.count, sIn.client)
       IN  /\ sOut' = Returned(r.val)
           /\ clientCalls' = clientCalls + r.calls
    /\ UNCHANGED <<tool, sIn, engineVars, probeVars, converterVars, laterVars>>

NextSearch == Construct \/ Search

SpecSearch == InitSearch /\ [][NextSearch]_vars

-----------------------------------------------------------------------------
(* The entry point (src/app.py)                                            *)

\* os.getenv("OPENAI_API_KEY"): not set, set to the empty string, set
OpenAiKeys == {None, Str(<<>>), Str(<<"sk-key">>)}

\* what get_user_input returns: validated choices, no callback, and the
\* registered documents exactly when RAG was chosen
UserInputs ==
    {p \in [fields : FieldLists, format : REPORT_FORMATS, language : REPORT_LANGUAGES,
            depth : ANALYSIS_DEPTH, rag_enabled : BOOLEAN,
            rag_docs : DocLists \ {None}, callback : {None}] :
        p.rag_enabled <=> p.rag_docs # List(<<>>)}

\* the callback app.run passes to workflow.run
update_progress == Fn("update_progress")

KeyMissingMsg == <<"error: OPENAI_API_KEY is not set">>

InitApp ==
    /\ EngineIdle
    /\ ProbeIdle
    /\ ConverterIdle
    /\ SearchIdle
    /\ env \in OpenAiKeys
    /\ app = "start"
    /\ console = <<>>
    /\ DocIdle
    /\ ResearchIdle
    /\ PlainIdle

\* mutant of AppCheck: app.run does not look at the credential
AppCheck_unchecked ==
    /\ app = "start"
    /\ app' = "input"
    /\ UNCHANGED <<env, console, engineVars, probeVars, converterVars, searchVars, docVars, researchVars, plainVars>>

\* app.run, lines 27-30: without the credential it prints and returns
AppCheck ==
    /\ app = "start"
    /\ IF ~Truthy(env)
       THEN app' = "done" /\ console' = Append(console, KeyMissingMsg)
       ELSE app' = "input" /\ console' = console
    /\ UNCHANGED <<env, engineVars, probeVars, converterVars, searchVars, docVars, researchVars, plainVars>>

\* get_user_input() raises (the user aborts): app.run prints and returns 1
AppAbort ==
    /\ app = "input"
    /\ app' = "done"
    /\ console' = Append(console, <<"error: ", "aborted">>)
    /\ UNCHANGED <<env, engineVars, probeVars, converterVars, searchVars, docVars, researchVars, plainVars>>

\* get_user_input() returns; workflow = TrendAnalysisGraphWorkflow();
\* workflow.setup(...)
AppSetup ==
    /\ app = "input"
    /\ pc = "idle"
    /\ \E p \in UserInputs :
        /\ state' = setup(state, p)
        /\ lastSetup' = p
    /\ lastOp' = "setup"
    /\ runArg' = None
    /\ outcome' = NoOutcome
    /\ NoRun
    /\ app' = "configured"
    /\ UNCHANGED <<pc, env, console, probeVars, converterVars, searchVars, docVars, researchVars, plainVars>>

\* workflow.run(callback=update_progress)
AppRun ==
    /\ app = "configured"
    /\ RunBegins(update_progress)
    /\ app' = "running"
    /\ UNCHANGED <<env, console, probeVars, converterVars, searchVars, docVars, researchVars, plainVars>>

\* workflow.run has returned or raised: app.run prints the path or the error
AppReport ==
    /\ app = "running"
    /\ pc = "idle"
    /\ app' = "done"
    /\ console' = Append(console,
                         IF outcome.kind = "returned"
                         THEN <<"report created: ">> \o PyStr(outcome.val)
                         ELSE <<"error: ">> \o PyStr(outcome.exc))
    /\ UNCHANGED <<env, engineVars, probeVars, converterVars, searchVars, docVars, researchVars, plainVars>>

NextApp ==
    \/ AppCheck
    \/ AppAbort
    \/ AppSetup
    \/ AppRun
    \/ CreatePlan
    \/ PerformResearch
    \/ GenerateReport
    \/ ConvertReport
    \/ HandleError
    \/ EndWorkflow
    \/ ApplyWrites
    \/ InvokeReturns
    \/ InvokeRaises
    \/ AppReport

SpecApp == InitApp /\ [][NextApp]_vars

-----------------------------------------------------------------------------
(* The document registry (src/app/data/processor.py) and the document      *)
(* menu of the command line (src/app/interface/cli.py)                     *)
(*                                                                         *)
(* A path is a record of directory, file name and suffix.                  *)

SUPPORTED_EXTENSIONS == {".pdf", ".docx", ".txt", ".md"}

MAX_DOCUMENTS == 2

RAG_DIR == "data/rag"

\* the files the user may name: three documents, one of them with an
\* upper-case suffix, and a file of an unsupported type
UserFiles ==
    {[dir |-> "in", name |-> "a", ext |-> ".pdf"],
     [dir |-> "in", name |-> "c", ext |-> ".MD"],
     [dir |-> "in", name |-> "d", ext |-> ".txt"],
     [dir |-> "in", name |-> "e", ext |-> ".exe"]}

\* self.rag_dir / file_path.name
Destination(path) == [path EXCEPT !.dir = RAG_DIR]

\* the paths given to the document manager: the user's files, which exist
\* until they are deleted, and their copies in the RAG directory
DocPaths == UserFiles \cup {Destination(f) : f \in UserFiles}

\* file_path.suffix.lower()
lower(ext) == IF ext = ".MD" THEN ".md" ELSE ext

\* the elements of a list
Elems(seq) == {seq[i] : i \in 1..Len(seq)}

\* list.remove(x): the list without the first x
RECURSIVE remove(_, _)
remove(seq, x) ==
    IF seq = <<>> THEN <<>>
    ELSE IF Head(seq) = x THEN Tail(seq)
    ELSE <<Head(seq)>> \o remove(Tail(seq), x)

\* mutant of add_document: the limit is tested after the copy, with >
add_document_late_limit(reg, dsk, file_path, io) ==
    LET destination == [file_path EXCEPT !.dir = "data/rag"]
    IN  IF file_path \notin dsk
        THEN [res |-> Raised(Exception("ValueError", <<"file not found">>)),
              registry |-> reg, disk |-> dsk]
        ELSE IF lower(file_path.ext) \notin SUPPORTED_EXTENSIONS
        THEN [res |-> Raised(Exception("ValueError", <<"unsupported file type">>)),
              registry |-> reg, disk |-> dsk]
        ELSE IF Len(reg) > 2
        THEN [res |-> Raised(Exception("ValueError", <<"at most 2 documents">>)),
              registry |-> reg, disk |-> dsk]
        ELSE IF destination = file_path
        THEN [res |-> Raised(Exception("SameFileError", <<"same file">>)),
              registry |-> reg, disk |-> dsk]
        ELSE IF io # "written"
        THEN [res |-> Raised(Exception("OSError", <<io>>)),
              registry |-> reg, disk |-> dsk]
        ELSE [res |-> Returned(TRUE),
              registry |-> IF destination \in Elems(reg) THEN reg
                           ELSE Append(reg, destination),
              disk |-> dsk \cup {destination}]

\* add_document(file_path) on the registry reg and the files dsk; io is what
\* shutil.copy2 does
add_document(reg, dsk, file_path, io) ==
    LET destination == Destination(file_path)
    IN  IF file_path \notin dsk
        THEN [res |-> Raised(Exception("ValueError", <<"file not found">>)),
              registry |-> reg, disk |-> dsk]
        ELSE IF lower(file_path.ext) \notin SUPPORTED_EXTENSIONS
        THEN [res |-> Raised(Exception("ValueError", <<"unsupported file type">>)),
              registry |-> reg, disk |-> dsk]
        ELSE IF Len(reg) >= MAX_DOCUMENTS
        THEN [res |-> Raised(Exception("ValueError", <<"at most 2 documents">>)),
              registry |-> reg, disk |-> dsk]
        ELSE IF destination = file_path
        THEN [res |-> Raised(Exception("SameFileError", <<"same file">>)),
              registry |-> reg, disk |-> dsk]
        ELSE IF io # "written"
        THEN [res |-> Raised(Exception("OSError", <<io>>)),
              registry |-> reg, disk |-> dsk]
        ELSE [res |-> Returned(TRUE),
              registry |-> IF destination \in Elems(reg) THEN reg
                           ELSE Append(reg, destination),
              disk |-> dsk \cup {destination}]

\* delete_document(file_path): the entry is removed first, then the file; io
\* is what os.remove does
delete_document(reg, dsk, file_path, io) ==
    IF file_path \in dsk /\ io # "written"
    THEN [res |-> Raised(Exception("OSError", <<io>>)),
          registry |-> remove(reg, file_path), disk |-> dsk]
    ELSE [res |-> Returned(TRUE),
          registry |-> remove(reg, file_path), disk |-> dsk \ {file_path}]

\* what a call found and what it did
Called(op, path, r) ==
    [op |-> op, path |-> path, res |-> r.res, before |-> registry]

InitDocs ==
    /\ EngineIdle
    /\ ProbeIdle
    /\ ConverterIdle
    /\ SearchIdle
    /\ AppIdle
    /\ registry = <<>>
    /\ disk = UserFiles
    /\ docOut = NotCalled
    /\ ResearchIdle
    /\ PlainIdle

\* DocumentManager().add_document(file_path)
AddDocument ==
    /\ \E file_path \in DocPaths, io \in IoOutcomes :
        LET r == add_document(registry, disk, file_path, io)
        IN  /\ registry' = r.registry
            /\ disk' = r.disk
            /\ docOut' = Called("add", file_path, r)
    /\ UNCHANGED <<engineVars, probeVars, converterVars, searchVars, appVars, researchVars, plainVars>>

\* DocumentManager().delete_document(file_path)
DeleteDocument ==
    /\ \E file_path \in DocPaths, io \in IoOutcomes :
        LET r == delete_document(registry, disk, file_path, io)
        IN  /\ registry' = r.registry
            /\ disk' = r.disk
            /\ docOut' = Called("delete", file_path, r)
    /\ UNCHANGED <<engineVars, probeVars, converterVars, searchVars, appVars, researchVars, plainVars>>

\* manage_rag_documents, action "1": the menu refuses at two documents, asks
\* for a path that must exist, and prints what add_document raises
ManageAdd ==
    /\ \E doc_path \in DocPaths, io \in IoOutcomes :
        IF Len(registry) >= 2 \/ doc_path \notin disk
        THEN /\ docOut' = [op |-> "menu add", path |-> doc_path,
                           res |-> Returned(None), before |-> registry]
             /\ UNCHANGED <<registry, disk>>
        ELSE LET r == add_document(registry, disk, doc_path, io)
             IN  /\ registry' = r.registry
                 /\ disk' = r.disk
                 /\ docOut' = [op |-> "menu add", path |-> doc_path,
                               res |-> Returned(None), before |-> registry]
    /\ UNCHANGED <<engineVars, probeVars, converterVars, searchVars, appVars, researchVars, plainVars>>

\* manage_rag_documents, action "2": one of the listed documents is deleted
ManageDelete ==
    /\ registry # <<>>
    /\ \E doc_idx \in 1..Len(registry), io \in IoOutcomes :
        LET r == delete_document(registry, disk, registry[doc_idx], io)
        IN  /\ registry' = r.registry
            /\ disk' = r.disk
            /\ docOut' = [op |-> "menu delete", path |-> registry[doc_idx],
                          res |-> Returned(None), before |-> registry]
    /\ UNCHANGED <<engineVars, probeVars, converterVars, searchVars, appVars, researchVars, plainVars>>

\* manage_rag_documents, action "3", and the rest of get_user_input: the
\* registered documents are offered, the user takes them or not, and app.run
\* hands the choice to setup
HandOver ==
    /\ pc = "idle"
    /\ \E use_rag \in (IF registry # <<>> THEN BOOLEAN ELSE {FALSE}) :
        LET p == [DefaultParams EXCEPT
                     !.rag_enabled = use_rag,
                     !.rag_docs = List(IF use_rag THEN registry ELSE <<>>)]
        IN  /\ state' = setup(state, p)
            /\ lastSetup' = p
    /\ lastOp' = "setup"
    /\ runArg' = None
    /\ outcome' = NoOutcome
    /\ NoRun
    /\ docOut' = [op |-> "hand over", path |-> None, res |-> Returned(None),
                  before |-> registry]
    /\ UNCHANGED <<pc, registry, disk, probeVars, converterVars, searchVars, appVars,
                   researchVars, plainVars>>

NextDocs ==
    \/ AddDocument
    \/ DeleteDocument
    \/ ManageAdd
    \/ ManageDelete
    \/ HandOver

SpecDocs == InitDocs /\ [][NextDocs]_vars

-----------------------------------------------------------------------------
(* The searches of the research stage (src/app/agents/research.py,         *)
(* src/app/tools/search.py)                                                *)

MaxTags == 2

\* state["fields"] of the research agent
TagLists == SeqsUpTo({"ai", "robotics"}, MaxTags)

aspects == <<"research_paper", "patents", "news", "investment", "corporate_rd">>

\* the query search_field builds for an aspect of a field
AspectQuery(field, aspect) ==
    CASE aspect = "research_paper" ->
            <<"latest research papers ", field, " technology 2025 future trends">>
      [] aspect = "patents" ->
            <<"recent patents ", field, " technology innovation trends">>
      [] aspect = "news" ->
            <<"recent ", field, " technology news breakthrough development">>
      [] aspect = "investment" ->
            <<field, " technology venture capital investment trends">>
      [] aspect = "corporate_rd" ->
            <<"major companies ", field, " technology R&D investment focus">>
      [] OTHER -> <<field, " technology ", aspect, " trends">>

\* the results of a search, each with the field and the aspect added
Tagged(results, field, aspect) ==
    [i \in 1..Len(results) |->
        [title |-> results[i].title, url |-> results[i].url,
         description |-> results[i].description,
         field |-> field, aspect |-> aspect]]

\* search_field(field, aspect, count) on the tool t: the list returned and the
\* number of client calls made
search_field(t, field, aspect, count, client) ==
    LET r == search(t, AspectQuery(field, aspect), count, client)
    IN  [val |-> List(Tagged(r.val.val, field, aspect)), calls |-> r.calls]

\* how long a call of the external client may take
CallDurations == {0, 1}

\* time.sleep(secs) suspends the thread for at least secs
sleep(secs) == {secs, secs + 1}

InitResearch ==
    /\ EngineIdle
    /\ ProbeIdle
    /\ ConverterIdle
    /\ SearchIdle
    /\ AppIdle
    /\ DocIdle
    /\ \E api_key \in ApiKeys, fields \in TagLists :
          rs = [tool |-> WebSearchTool(api_key), fields |-> fields,
                i |-> 1, j |-> 1, at |-> "search", found |-> 0]
    /\ clock = 0
    /\ extLog = [n |-> 0, lastEnd |-> 0, gaps |-> {}]
    /\ PlainIdle

\* mutant of Throttle: the loop goes on without time.sleep
Throttle_skipped ==
    /\ rs # None
    /\ rs.at = "sleep"
    /\ \E secs \in sleep(1) :
          /\ clock' = clock
          /\ rs' = [rs EXCEPT !.at = "search",
                              !.j = IF rs.j = Len(aspects) THEN 1 ELSE rs.j + 1,
                              !.i = IF rs.j = Len(aspects) THEN rs.i + 1 ELSE rs.i]
    /\ UNCHANGED <<extLog, engineVars, probeVars, converterVars, searchVars,
                   appVars, docVars, plainVars>>

\* analyze_trends, line 128: results[aspect] = self.search_field(field,
\* aspect, count=5); the client, if called, is called now and answers after d
SearchField ==
    /\ rs # None
    /\ rs.at = "search"
    /\ rs.i <= Len(rs.fields)
    /\ \E client \in ClientOutcomes, d \in CallDurations :
        LET r == search_field(rs.tool, rs.fields[rs.i], aspects[rs.j], 5, client)
        IN  /\ rs' = [rs EXCEPT !.at = "sleep", !.found = Len(r.val.val)]
            /\ IF r.calls > 0
               THEN /\ clock' = clock + d
                    /\ extLog' = [n |-> extLog.n + 1,
                                  lastEnd |-> clock + d,
                                  gaps |-> IF extLog.n = 0 THEN extLog.gaps
                                           ELSE extLog.gaps
                                                \cup {clock - extLog.lastEnd}]
               ELSE UNCHANGED <<clock, extLog>>
    /\ UNCHANGED <<engineVars, probeVars, converterVars, searchVars, appVars, docVars,
                   plainVars>>

\* analyze_trends, line 129: time.sleep(1), then the next aspect, or the next
\* field of search_field_information
Throttle ==
    /\ rs # None
    /\ rs.at = "sleep"
    /\ \E secs \in sleep(1) :
          /\ clock' = clock + secs
          /\ rs' = [rs EXCEPT !.at = "search",
                              !.j = IF rs.j = Len(aspects) THEN 1 ELSE rs.j + 1,
                              !.i = IF rs.j = Len(aspects) THEN rs.i + 1 ELSE rs.i]
    /\ UNCHANGED <<extLog, engineVars, probeVars, converterVars, searchVars,
                   appVars, docVars, plainVars>>

\* search_field_information returns after the last field
SearchesDone ==
    /\ rs # None
    /\ rs.at = "search"
    /\ rs.i > Len(rs.fields)
    /\ rs' = [rs EXCEPT !.at = "done"]
    /\ UNCHANGED <<clock, extLog, engineVars, probeVars, converterVars, searchVars,
                   appVars, docVars, plainVars>>

NextResearch == SearchField \/ Throttle \/ SearchesDone

SpecResearch == InitResearch /\ [][NextResearch]_vars

-----------------------------------------------------------------------------
(* The plain workflow (src/app/workflow.py), run on the parameters the     *)
(* graph engine was set up with                                            *)

StartMsg0 == <<"workflow start">>

\* TrendAnalysisWorkflow(): the attributes after __init__
TrendAnalysisWorkflow ==
    [fields |-> <<>>, format |-> "md", language |-> "ko", depth |-> "standard",
     rag_enabled |-> FALSE, rag_docs |-> List(<<>>), output_path |-> None,
     coordinator |-> None, researcher |-> None]

\* TrendAnalysisWorkflow.setup: the attributes, and the parameters handed to
\* the coordinator and to the researcher
plain_setup(w, p) ==
    [w EXCEPT !.fields = p.fields,
              !.format = p.format,
              !.language = p.language,
              !.depth = p.depth,
              !.rag_enabled = p.rag_enabled,
              !.rag_docs = PyOr(p.rag_docs, List(<<>>)),
              !.coordinator = [fields |-> p.fields, format |-> p.format,
                               language |-> p.language, depth |-> p.depth,
                               rag_enabled |-> p.rag_enabled,
                               rag_docs |-> PyOr(p.rag_docs, List(<<>>))],
              !.researcher = [fields |-> p.fields, depth |-> p.depth,
                              rag_enabled |-> p.rag_enabled,
                              rag_docs |-> PyOr(p.rag_docs, List(<<>>))]]

\* a call of a collaborator, with what it was given and whether it returned
Call(name, args, ok) == [name |-> name, args |-> args, ok |-> ok]

\* run is left by the exception e after the messages m
Fails(r, e, m) ==
    [r EXCEPT !.at = "raised", !.outcome = RaisedError(e), !.msgs = r.msgs \o m]

\* callback(text), if a callback was given
Tell(r, text) == Notify([callback |-> r.cb], text)

\* mutant of reporter_parameters: the reporter is not given the research result
reporter_parameters_without_data(w, research_results) ==
    [fields |-> w.fields, language |-> w.language, depth |-> w.depth,
     research_data |-> None]

\* self.reporter.set_task_parameters(...) of run
reporter_parameters(w, research_results) ==
    [fields |-> w.fields, language |-> w.language, depth |-> w.depth,
     research_data |-> research_results]

\* run, lines 86-93: the first two messages and the analysis plan
run_plan(w, r, cb, cb2, collab) ==
    IF Truthy(r.cb) /\ cb = "raises"
    THEN Fails(r, CallbackError, Tell(r, StartMsg0))
    ELSE IF Truthy(r.cb) /\ cb2 = "raises"
    THEN Fails(r, CallbackError, Tell(r, StartMsg0) \o Tell(r, PlanStartMsg))
    ELSE LET r1 == [r EXCEPT !.msgs = r.msgs \o Tell(r, StartMsg0) \o Tell(r, PlanStartMsg),
                             !.calls = Append(r.calls,
                                 Call("create_analysis_plan", w.coordinator, collab.ok))]
         IN  IF collab.ok
             THEN [r1 EXCEPT !.at = "research", !.analysis_plan = collab.val]
             ELSE Fails(r1, collab.exc, <<>>)

\* run, lines 96-100: the research and its hand-over to the coordinator
run_research(w, r, cb, collab) ==
    IF Truthy(r.cb) /\ cb = "raises"
    THEN Fails(r, CallbackError, Tell(r, ResearchStartMsg))
    ELSE LET r1 == [r EXCEPT !.msgs = r.msgs \o Tell(r, ResearchStartMsg),
                             !.calls = Append(r.calls,
                                 Call("research", w.researcher, collab.ok))]
         IN  IF collab.ok
             THEN [r1 EXCEPT !.at = "report",
                             !.research_results = collab.val,
                             !.calls = Append(r1.calls,
                                 Call("process_research_results", collab.val, TRUE))]
             ELSE Fails(r1, collab.exc, <<>>)

\* run, lines 103-114: the report and its hand-over to the coordinator
run_report(w, r, cb, collab) ==
    IF Truthy(r.cb) /\ cb = "raises"
    THEN Fails(r, CallbackError, Tell(r, ReportStartMsg))
    ELSE LET r1 == [r EXCEPT !.msgs = r.msgs \o Tell(r, ReportStartMsg),
                             !.calls = Append(r.calls,
                                 Call("report",
                                      reporter_parameters(w, r.research_results),
                                      collab.ok))]
         IN  IF collab.ok
             THEN [r1 EXCEPT !.at = "convert",
                             !.report = collab.val,
                             !.calls = Append(r1.calls,
                                 Call("process_report", collab.val, TRUE))]
             ELSE Fails(r1, collab.exc, <<>>)

\* mutant of run_convert: output_path is cleared before the conversion
run_convert_clears(w, r, cb, cb2, io, timestamp) ==
    IF Truthy(r.cb) /\ cb = "raises"
    THEN [w |-> w, r |-> Fails(r, CallbackError, Tell(r, ConvertStartMsg(w)))]
    ELSE LET conv == ReportConverter_convert(r.report, w.format, Filename(timestamp), io)
             r1 == [r EXCEPT !.msgs = r.msgs \o Tell(r, ConvertStartMsg(w)),
                             !.calls = Append(r.calls,
                                 Call("convert",
                                      [markdown_content |-> r.report, format |-> w.format],
                                      conv.ok))]
         IN  IF ~conv.ok
             THEN [w |-> [w EXCEPT !.output_path = None], r |-> Fails(r1, conv.exc, <<>>)]
             ELSE IF Truthy(r.cb) /\ cb2 = "raises"
             THEN [w |-> [w EXCEPT !.output_path = conv.val],
                   r |-> Fails(r1, CallbackError, Tell(r, CompleteMsg(conv.val)))]
             ELSE [w |-> [w EXCEPT !.output_path = conv.val],
                   r |-> [r1 EXCEPT !.at = "returned",
                                    !.msgs = r1.msgs \o Tell(r, CompleteMsg(conv.val)),
                                    !.outcome = ReturnedPath(conv.val)]]

\* run, lines 117-132: the conversion, self.output_path, the last message and
\* the return
run_convert(w, r, cb, cb2, io, timestamp) ==
    IF Truthy(r.cb) /\ cb = "raises"
    THEN [w |-> w, r |-> Fails(r, CallbackError, Tell(r, ConvertStartMsg(w)))]
    ELSE LET conv == ReportConverter_convert(r.report, w.format, Filename(timestamp), io)
             r1 == [r EXCEPT !.msgs = r.msgs \o Tell(r, ConvertStartMsg(w)),
                             !.calls = Append(r.calls,
                                 Call("convert",
                                      [markdown_content |-> r.report, format |-> w.format],
                                      conv.ok))]
         IN  IF ~conv.ok
             THEN [w |-> w, r |-> Fails(r1, conv.exc, <<>>)]
             ELSE IF Truthy(r.cb) /\ cb2 = "raises"
             THEN [w |-> [w EXCEPT !.output_path = conv.val],
                   r |-> Fails(r1, CallbackError, Tell(r, CompleteMsg(conv.val)))]
             ELSE [w |-> [w EXCEPT !.output_path = conv.val],
                   r |-> [r1 EXCEPT !.at = "returned",
                                    !.msgs = r1.msgs \o Tell(r, CompleteMsg(conv.val)),
                                    !.outcome = ReturnedPath(conv.val)]]

\* both workflows are constructed and set up with the same parameters
BothSetup ==
    /\ plain = None
    /\ pc = "idle"
    /\ \E p \in Params :
        /\ state' = setup(state, p)
        /\ lastSetup' = p
        /\ plain' = plain_setup(TrendAnalysisWorkflow, p)
    /\ prun' = None
    /\ lastOp' = "setup"
    /\ runArg' = None
    /\ outcome' = NoOutcome
    /\ NoRun
    /\ UNCHANGED <<pc, probeVars, converterVars, searchVars, appVars, docVars,
                   researchVars>>

\* the plain workflow is not in the middle of a run
PlainAtRest == IF prun = None THEN TRUE ELSE prun.at \in {"returned", "raised"}

\* plain.run(callback) is called, before the graph engine is run
PlainRunBegins ==
    /\ plain # None
    /\ PlainAtRest
    /\ lastOp = "setup"
    /\ \E callback \in OptCallbacks :
          prun' = [at |-> "plan", cb |-> callback, calls |-> <<>>, msgs |-> <<>>,
                   before |-> plain.output_path, analysis_plan |-> None,
                   research_results |-> None, report |-> None,
                   outcome |-> NoOutcome]
    /\ UNCHANGED <<plain, engineVars, probeVars, converterVars, searchVars, appVars,
                   docVars, researchVars>>

PlainPlan ==
    /\ prun # None
    /\ prun.at = "plan"
    /\ \E cb \in CbOutcomes, cb2 \in CbOutcomes,
          collab \in AgentMay(env, PlanOutcomes(plain)) :
          prun' = run_plan(plain, prun, cb, cb2, collab)
    /\ UNCHANGED <<plain, engineVars, probeVars, converterVars, searchVars, appVars,
                   docVars, researchVars>>

PlainResearch ==
    /\ prun # None
    /\ prun.at = "research"
    /\ \E cb \in CbOutcomes, collab \in AgentMay(env, ResearchOutcomes) :
          prun' = run_research(plain, prun, cb, collab)
    /\ UNCHANGED <<plain, engineVars, probeVars, converterVars, searchVars, appVars,
                   docVars, researchVars>>

PlainReport ==
    /\ prun # None
    /\ prun.at = "report"
    /\ \E cb \in CbOutcomes, collab \in AgentMay(env, ReportOutcomes) :
          prun' = run_report(plain, prun, cb, collab)
    /\ UNCHANGED <<plain, engineVars, probeVars, converterVars, searchVars, appVars,
                   docVars, researchVars>>

PlainConvert ==
    /\ prun # None
    /\ prun.at = "convert"
    /\ \E cb \in CbOutcomes, cb2 \in CbOutcomes, io \in IoOutcomes, ts \in Timestamps :
          LET x == run_convert(plain, prun, cb, cb2, io, ts)
          IN  /\ plain' = x.w
              /\ prun' = x.r
    /\ UNCHANGED <<engineVars, probeVars, converterVars, searchVars, appVars,
                   docVars, researchVars>>

\* graph.run(callback) is called, with the callback the plain run was given,
\* once the plain run has returned
GraphRunStart ==
    /\ prun # None
    /\ prun.at = "returned"
    /\ lastOp = "setup"
    /\ RunBegins(prun.cb)
    /\ UNCHANGED <<probeVars, toolVars>>

NextPlain ==
    \/ BothSetup
    \/ PlainRunBegins
    \/ PlainPlan
    \/ PlainResearch
    \/ PlainReport
    \/ PlainConvert
    \/ GraphRunStart
    \/ CreatePlan
    \/ PerformResearch
    \/ GenerateReport
    \/ ConvertReport
    \/ HandleError
    \/ EndWorkflow
    \/ ApplyWrites
    \/ InvokeReturns
    \/ InvokeRaises

SpecPlain == Init /\ [][NextPlain]_vars

-----------------------------------------------------------------------------
(* Claims                                                                  *)

Entries == 1..Len(trace)

NodesRun == [i \in Entries |-> trace[i].node]

RunEnded == pc = "idle" /\ lastOp \in Runs /\ trace # <<>>

\* the node whose completion lets n start
Pred(n) ==
    CASE n = "perform_research" -> "create_plan"
      [] n = "generate_report"  -> "perform_research"
      [] n = "convert_report"   -> "generate_report"
      [] n = "end_workflow"     -> "convert_report"

\* entry i is a stage that returned with state.error set
LeftError(i) ==
    trace[i].node \in Stages /\ ~trace[i].raised /\ Truthy(trace[i].ret.error)

\* C1: a stage or end_workflow starts only right after its preceding stage
\* returned and the router answered "continue" for it; and once a stage has left
\* state.error set, the next and only node executed is handle_error, after which
\* the run is over.
C1_SequentialRouting ==
    /\ \A i \in Entries :
        trace[i].node \in DOMAIN ConditionalEdges \/ trace[i].node = "end_workflow"
        => \/ trace[i].node = EntryPoint /\ i = 1
           \/ /\ trace[i].node # EntryPoint
              /\ i > 1
              /\ trace[i-1].node = Pred(trace[i].node)
              /\ ~trace[i-1].raised
              /\ should_handle_error(trace[i-1].ret) = "continue"
    /\ \A i \in Entries :
        LeftError(i)
        => /\ i < Len(trace) => trace[i+1].node = "handle_error" /\ Len(trace) = i + 1
           /\ pc = "idle" => Len(trace) = i + 1

StageIndex(n) ==
    CASE n = "create_plan"      -> 1
      [] n = "perform_research" -> 2
      [] n = "generate_report"  -> 3
      [] n = "convert_report"   -> 4

Artifact(s, j) ==
    CASE j = 1 -> s.analysis_plan
      [] j = 2 -> s.research_results
      [] j = 3 -> s.report
      [] j = 4 -> s.output_path

SomeCollabFailed == \E i \in Entries : trace[i].collabFailed

\* the first node execution of the run whose collaborator raised
FirstFailed ==
    CHOOSE i \in Entries :
        trace[i].collabFailed /\ \A j \in 1..(i-1) : ~trace[j].collabFailed

\* C2: once the collaborator of stage k has failed, the graph's state holds the
\* artifacts of the stages before k and none of stage k or of a later stage, up
\* to and including the final state; and the run ends by raising.
C2_ArtifactsAfterFailure ==
    SomeCollabFailed
    => LET k == StageIndex(trace[FirstFailed].node)
       IN  /\ \A j \in 1..4 : (j < k) = (Artifact(chan, j) # None)
           /\ pc = "idle" => outcome.kind = "raised"

\* witness of C2: a run that ended after Research failed behind a successful Plan
C2_Witness ==
    /\ RunEnded
    /\ SomeCollabFailed
    /\ trace[FirstFailed].node = "perform_research"
    /\ chan.analysis_plan # None
    /\ chan.report = None
    /\ outcome.kind = "raised"

\* every collaborator called so far returned and no callback invocation raised
AllSucceeded ==
    \A i \in Entries : ~trace[i].collabFailed /\ ~trace[i].cbRaised /\ ~trace[i].raised

SuccessPath ==
    <<"create_plan", "perform_research", "generate_report", "convert_report",
      "end_workflow">>

\* C3: in a run where every collaborator succeeds, the nodes run are plan,
\* research, report, convert (then end_workflow), once each and in that order;
\* the run ends with status "completed", error unset, and run returns exactly
\* the final state's output_path, which is a non-empty string.
C3_SuccessRun ==
    (lastOp \in Runs /\ trace # <<>> /\ AllSucceeded)
    => /\ Len(trace) <= Len(SuccessPath)
       /\ \A i \in Entries : trace[i].node = SuccessPath[i]
       /\ pc = "idle" =>
            /\ NodesRun = SuccessPath
            /\ chan.status = "completed"
            /\ chan.error = None
            /\ outcome = ReturnedPath(chan.output_path)
            /\ chan.output_path.tag = "str"
            /\ chan.output_path.val # <<>>

\* witness of C3: a run with a callback ended by returning a path
C3_Witness ==
    /\ RunEnded
    /\ AllSucceeded
    /\ chan.callback # None
    /\ outcome.kind = "returned"

NoCallbackRaised == \A i \in Entries : ~trace[i].cbRaised

\* C4: when a run (in which every callback invocation returned) ends through
\* the error path, with state.error set by the failing stage, run raises an
\* error whose message is state.error verbatim.
C4_ErrorVerbatim ==
    (RunEnded /\ NoCallbackRaised /\ Truthy(chan.error))
    => /\ outcome.kind = "raised"
       /\ outcome.exc.msg = chan.error.val

\* C5: a stage whose collaborator raises returns normally, with error set to a
\* non-empty message and status "error": no exception leaves the stage.
C5_FailureCaught ==
    \A i \in Entries :
        trace[i].collabFailed
        => /\ ~trace[i].raised
           /\ trace[i].ret.error.tag = "str"
           /\ trace[i].ret.error.val # <<>>
           /\ should_handle_error(trace[i].ret) = "error"
           /\ trace[i].ret.status = "error"

\* witness of C5: the Report stage, reached behind two successful stages, has
\* returned after its collaborator raised with an empty str(e)
C5_Witness ==
    /\ Len(trace) = 3
    /\ trace[3].node = "generate_report"
    /\ trace[3].collabFailed
    /\ trace[3].ret.error = Str(ReportErrorPrefix)
    /\ trace[3].ret.report = None

\* C6: a callback that raises never fails a node: no exception leaves the node
\* and it returns the artifacts, status and error it returns without a callback.
C6_CallbackBestEffort ==
    \A i \in Entries :
        trace[i].cbRaised
        => /\ ~trace[i].raised
           /\ \A k \in StateKeys \ {"callback"} : trace[i].ret[k] = trace[i].quiet[k]

\* C7: should_handle_error answers "error" exactly when state.error is neither
\* None nor the empty string, whatever the other fields hold, and leaves the
\* state dict as it was.
C7_RouterPure ==
    rout # "unset"
    => /\ rout \in {"error", "continue"}
       /\ (rout = "error") = (rin.error # None /\ rin.error # Str(<<>>))
       /\ rafter = rin

\* witness of C7: the router was asked about a dict whose error is the empty
\* string and whose status is "error"
C7_Witness ==
    /\ rout = "continue"
    /\ rin.error = Str(<<>>)
    /\ rin.status = "error"

\* C8: run on an engine that was never set up raises the not-initialized error
\* at once, with or without a callback: no node runs, no callback is invoked and
\* the stored state stays unset.
C8_NotInitialized ==
    (lastOp \in Runs /\ (state = None \/ outcome = RaisedError(NotInitializedError)))
    => /\ outcome = RaisedError(NotInitializedError)
       /\ state = None
       /\ pc = "idle"
       /\ trace = <<>>
       /\ msgs = <<>>
       /\ chan = None

\* witness of C8: run was called before any setup
C8_Witness == lastOp \in Runs /\ lastSetup = NoParams

\* the value setup stores for an omitted (None) or empty rag_docs is []
StoredDocs(d) == IF d = None THEN List(<<>>) ELSE d

ParamKeys == {"fields", "format", "language", "depth", "rag_enabled"}

\* C9: right after setup(p) the stored state has exactly p's fields, format,
\* language, depth, rag_enabled, rag_docs and callback, no artifact, status
\* "initialized" and no error, whatever was stored before; and a run works on
\* the parameters of the latest setup only.
C9_SetupReplaces ==
    /\ lastOp \in {"setup", "resetup"}
       => /\ DOMAIN state = StateKeys
          /\ \A k \in ParamKeys : state[k] = lastSetup[k]
          /\ state.rag_docs = StoredDocs(lastSetup.rag_docs)
          /\ state.callback = lastSetup.callback
          /\ \A j \in 1..4 : Artifact(state, j) = None
          /\ state.status = "initialized"
          /\ state.error = None
    /\ pc = "running"
       => /\ \A k \in ParamKeys : chan[k] = lastSetup[k]
          /\ chan.rag_docs = StoredDocs(lastSetup.rag_docs)

\* witness of C9: a setup for pdf without a callback has replaced a different
\* stored state
C9_Witness ==
    /\ lastOp = "resetup"
    /\ lastSetup.callback = None
    /\ lastSetup.format = "pdf"

\* C10: no superstep of a run schedules or executes two nodes together, so no
\* two nodes write the state in the same step.
C10_OneNodeAtATime ==
    /\ Cardinality(sched) <= 1
    /\ Cardinality(writes) <= 1

-----------------------------------------------------------------------------
(* Terminal states                                                         *)

TerminalNodes == {"handle_error", "end_workflow"}

\* a terminal node of the graph has been entered in the current run
TerminalReached == \E i \in Entries : trace[i].node \in TerminalNodes

\* exactly one of: an error is recorded, the status is "completed"
ExactlyOneEnding(s) == Truthy(s.error) # (s.status = "completed")

\* C11: once a run has reached a terminal node (handle_error or end_workflow),
\* exactly one of the two holds of the workflow state, in the state the
\* terminal node is handed, in the one it returns and in the graph's state
\* from then on: an error is set, or the status is "completed"; never both
\* and never neither.
C11_ExactlyOneEnding ==
    /\ \A i \in Entries :
          trace[i].node \in TerminalNodes
          => ExactlyOneEnding(trace[i].arg) /\ ExactlyOneEnding(trace[i].ret)
    /\ TerminalReached => ExactlyOneEnding(chan)

\* witness of C11: the conversion wrote the file and set "completed", its
\* completion message made the callback raise, and the run has ended after
\* handle_error with the error recorded and the status "error"
C11_Witness ==
    /\ RunEnded
    /\ \E i \in Entries :
          /\ trace[i].node = "convert_report"
          /\ trace[i].cbRaised /\ ~trace[i].raised
    /\ \E i \in Entries : trace[i].node = "handle_error" /\ ~trace[i].raised
    /\ Truthy(chan.error) /\ chan.status = "error" /\ Truthy(chan.output_path)

-----------------------------------------------------------------------------
(* Dependency order of the artifacts                                       *)

\* artifact j of the state dict s is set
IsSet(s, j) == Artifact(s, j) # None

\* each artifact is set only if the one it is made from is set
DependencyOrder(s) == \A j \in 2..4 : IsSet(s, j) => IsSet(s, j - 1)

\* the state dicts of the current run: the graph's state and the dicts the
\* nodes of the current superstep have returned
RunStates == {chan} \cup {w.ret : w \in writes}

\* C12: in every state of a run, the graph's state and the state dict each
\* node returns, research_results is set only if analysis_plan is set, report
\* only if research_results is set, and output_path only if report is set.
C12_DependencyOrder ==
    pc = "running" => \A s \in RunStates : DependencyOrder(s)

\* the part of C12 that the graph's own state satisfies
CommittedDependencyOrder ==
    chan # None => DependencyOrder(chan)

-----------------------------------------------------------------------------
(* Termination                                                             *)

\* a terminal node of the graph has run to its end in the current run
TerminalDone ==
    \E i \in Entries : trace[i].node \in TerminalNodes /\ ~trace[i].raised

\* no stage has been executed twice in the current run
NoStageTwice ==
    \A i, j \in Entries :
        (trace[i].node \in Stages /\ trace[i].node = trace[j].node) => i = j

\* how a run that is over has ended
EndedAtTerminal ==
    /\ TerminalDone
    /\ chan.status \in {"completed", "error"}
    /\ NoStageTwice

\* C13: a run started after setup ends, whatever the collaborators do, only
\* after end_workflow or handle_error has run: once run has returned or raised,
\* a terminal node has been executed, the status is not an intermediate one
\* and no stage was executed twice.
C13_EndsAtTerminal == RunEnded => EndedAtTerminal

\* the part of C13 that holds: the same for the runs in which no callback
\* invocation raised
EndsAtTerminalUnlessCallbackRaised ==
    (RunEnded /\ NoCallbackRaised) => EndedAtTerminal

-----------------------------------------------------------------------------
(* The markdown round trip                                                 *)

\* the text handed to convert
GivenText == cvIn.markdown_content.val

MdRoundTripEveryText ==
    (cvIn # None /\ cvIn.format = "md" /\ cvIn.io = "written" /\ cvOut # NotCalled)
    => /\ cvOut.ok
       /\ cvRead # NotRead => cvRead.text = GivenText

HasCarriageReturn(t) == \E i \in 1..Len(t) : t[i] = "\r"

-----------------------------------------------------------------------------
(* An unsupported format                                                   *)

\* the text v (a Python str) contains the token tok
HasToken(v, tok) == v.tag = "str" /\ \E k \in 1..Len(v.val) : v.val[k] = tok

\* entry i of the trace is the Convert stage, reached after the report was
\* generated, calling the converter with a format it does not support
ConvertsUnsupported(i) ==
    /\ trace[i].node = "convert_report"
    /\ trace[i].arg.status = "report_generated"
    /\ trace[i].arg.format \notin REPORT_FORMATS
    /\ trace[i].collabCalled

\* C15: when the Convert stage runs with a format outside the supported set,
\* the converter's failure does not leave the stage: the stage returns a state
\* whose error contains the format name, with status "error" and output_path
\* unset; that is the final state of the run, and run raises.
C15_UnsupportedFormat ==
    \A i \in Entries :
        ConvertsUnsupported(i)
        => /\ ~trace[i].raised
           /\ trace[i].collabFailed
           /\ HasToken(trace[i].ret.error, trace[i].arg.format)
           /\ trace[i].ret.status = "error"
           /\ trace[i].ret.output_path = None
           /\ RunEnded
              => /\ HasToken(chan.error, chan.format)
                 /\ chan.status = "error"
                 /\ chan.output_path = None
                 /\ outcome.kind = "raised"

\* witness of C15: a run set up for "xml" has ended after the Convert stage
\* called the converter, with the format name in the final state's error
C15_Witness ==
    /\ RunEnded
    /\ chan.format = "xml"
    /\ \E i \in Entries : ConvertsUnsupported(i)
    /\ HasToken(chan.error, "xml")
    /\ outcome.kind = "raised"

-----------------------------------------------------------------------------
(* Search without a credential                                             *)

\* no search credential is configured: the variable is not set, or empty
NoCredential == ~Truthy(sIn.api_key)

\* the first m entries of the placeholder set for the query
FirstPlaceholders(query, m) == [k \in 1..m |-> dummy_results(query)[k]]

\* C16: with no search credential configured, search(query, count) does not
\* raise and, for every count >= 0, returns exactly the first min(count, 5)
\* entries of the placeholder set built for the query, and the external
\* search client is not called (none was built).
C16_PlaceholderSearch ==
    (sOut # NotSearched /\ NoCredential /\ sIn.count >= 0)
    => /\ sOut.ok
       /\ sOut.val = List(FirstPlaceholders(sIn.query,
                                            IF sIn.count < 5 THEN sIn.count ELSE 5))
       /\ clientCalls = 0
       /\ tool.client = None

\* witness of C16: with the credential set to the empty string, a search for
\* three results has returned three entries
C16_Witness ==
    /\ sOut # NotSearched
    /\ sIn.api_key = Str(<<>>)
    /\ sIn.count = 3
    /\ Len(sOut.val.val) = 3
    /\ sOut.val.val[3].url = Str(<<"https://example.com/patents/3">>)

-----------------------------------------------------------------------------
(* The stored state across runs                                            *)

\* the stored state is as the latest setup left it, but for the callback
AsSetupLeftIt ==
    \A k \in StateKeys \ {"callback"} : state[k] = initial_state(lastSetup)[k]

\* C17: run works on a copy. At every moment after a setup, during and after
\* any number of runs that return or raise, the stored state has no artifact,
\* status "initialized" and no error, as setup left it; and every run, a
\* second one without a new setup included, starts from that state and
\* executes create_plan first.
C17_NoLeak ==
    /\ state # None
       => /\ AsSetupLeftIt
          /\ \A j \in 1..4 : Artifact(state, j) = None
          /\ state.status = "initialized"
          /\ state.error = None
    /\ (pc = "running" /\ trace = <<>>)
       => /\ chan = state
          /\ sched = {"create_plan"}
    /\ (lastOp \in Runs /\ trace # <<>>)
       => /\ trace[1].node = "create_plan"
          /\ trace[1].arg = state

\* witness of C17: a second run without a new setup has gone through all
\* stages again and returned a path
C17_Witness ==
    /\ lastOp = "rerun"
    /\ RunEnded
    /\ outcome.kind = "returned"
    /\ chan.status = "completed"
    /\ state.status = "initialized"

-----------------------------------------------------------------------------
(* What each node writes                                                   *)

\* the artifact field a node owns
Owned(n) ==
    CASE n = "create_plan"      -> {"analysis_plan"}
      [] n = "perform_research" -> {"research_results"}
      [] n = "generate_report"  -> {"report"}
      [] n = "convert_report"   -> {"output_path"}
      [] OTHER                  -> {}

\* the fields a node may change
Writable(n) == IF n \in Stages THEN Owned(n) \cup {"status", "error"} ELSE {}

\* the fields setup takes from its arguments
GivenKeys == StateKeys \ {"analysis_plan", "research_results", "report",
                          "output_path", "status", "error"}

\* C18: every node returns the state it was handed with at most its own
\* fields changed: create_plan only analysis_plan, perform_research only
\* research_results, generate_report only report, convert_report only
\* output_path, each with status and error; handle_error and end_workflow
\* change nothing. The parameters (fields, format, language, depth,
\* rag_enabled, rag_docs) and the callback are the same in every state of the
\* run as in the state the run started from.
C18_Frame ==
    /\ \A i \in Entries :
          /\ DOMAIN trace[i].ret = StateKeys
          /\ \A k \in StateKeys \ Writable(trace[i].node) :
                trace[i].ret[k] = trace[i].arg[k]
    /\ (lastOp \in Runs /\ chan # None)
       => /\ \A k \in GivenKeys : chan[k] = state[k]
          /\ \A w \in writes : \A k \in GivenKeys : w.ret[k] = state[k]

\* witness of C18: convert_report has set output_path and the status, and
\* end_workflow has then returned the state it was handed
C18_Witness ==
    \E i, j \in Entries :
        /\ trace[i].node = "convert_report"
        /\ trace[i].arg.output_path = None /\ trace[i].ret.output_path # None
        /\ trace[i].arg.status # trace[i].ret.status
        /\ trace[j].node = "end_workflow"
        /\ ~trace[j].raised
        /\ trace[j].ret = trace[j].arg
        /\ trace[j].arg.status = "completed"

-----------------------------------------------------------------------------
(* The status state machine                                                *)

\* the success marker of a stage
Marker(n) ==
    CASE n = "create_plan"      -> "analysis_plan_created"
      [] n = "perform_research" -> "research_completed"
      [] n = "generate_report"  -> "report_generated"
      [] n = "convert_report"   -> "completed"

\* the place of a status in the order of the success markers
StatusRank(st) ==
    CASE st = "initialized"           -> 0
      [] st = "analysis_plan_created" -> 1
      [] st = "research_completed"    -> 2
      [] st = "report_generated"      -> 3
      [] st = "completed"             -> 4

\* node n may turn the state a into the state r
StatusStep(n, a, r) ==
    \/ r.status = a.status
    \/ /\ n \in Stages
       /\ a.status # "error"
       /\ r.status = Marker(n)
       /\ r.error = None
       /\ StatusRank(r.status) = StatusRank(a.status) + 1
    \/ /\ n \in Stages
       /\ r.status = "error"
       /\ Truthy(r.error)

\* C19: the status starts "initialized", and every node execution of a run
\* leaves it alone or moves it along the state machine: a successful stage
\* sets its own marker, the next one in the order analysis_plan_created,
\* research_completed, report_generated, completed, with error cleared; a
\* failing stage sets "error"; the status never moves backward, never skips a
\* marker and never leaves "error".
C19_StatusMachine ==
    /\ state # None => state.status = "initialized"
    /\ \A i \in Entries :
          StatusStep(trace[i].node, trace[i].arg, trace[i].ret)

\* the part of C19 that holds: the same of the graph's committed state, from
\* one state of the run to the next
CommittedStatusMachine ==
    [][(pc = "running" /\ chan'.status # chan.status)
       => \E n \in Stages : StatusStep(n, chan, chan')]_vars

-----------------------------------------------------------------------------
(* Who receives the progress messages                                      *)

\* every message of the current run went to the callback v, and there is no
\* message at all if v is no callback
AllDeliveredTo(v) ==
    IF Truthy(v)
    THEN \A i \in 1..Len(msgs) : msgs[i].cb = v.id
    ELSE msgs = <<>>

\* C20 as stated: when run is given a callback, every progress message of the
\* run is delivered to it and none to the callback stored by setup; when run
\* is given no callback, the callback given to setup (if any) receives the
\* messages.
C20_CallbackAsStated ==
    (lastOp \in Runs /\ state # None)
    => AllDeliveredTo(IF Truthy(runArg) THEN runArg ELSE lastSetup.callback)

\* C20, amended: when run is given a callback, every progress message of the
\* run is delivered to it and none to another callback; when run is given no
\* callback, the messages go to the callback that is stored at that moment,
\* which is the one given to setup in the first run after a setup and may be
\* the one passed to an earlier run afterwards; with no stored callback there
\* are no messages.
C20_CallbackRouting ==
    (lastOp \in Runs /\ state # None)
    => /\ Truthy(runArg) => AllDeliveredTo(runArg)
       /\ ~Truthy(runArg) => AllDeliveredTo(state.callback)
       /\ (~Truthy(runArg) /\ lastOp = "run") => state.callback = lastSetup.callback
       /\ chan.callback = (IF Truthy(runArg) THEN runArg ELSE state.callback)

\* witness of C20: after a setup without a callback, a second run, given no
\* callback, has delivered messages to the callback an earlier run stored
C20_Witness ==
    /\ lastOp = "rerun"
    /\ state # None
    /\ lastSetup.callback = None
    /\ runArg = None
    /\ Len(msgs) >= 2
    /\ msgs[1].cb = state.callback.id

-----------------------------------------------------------------------------
(* A missing credential                                                    *)

-----------------------------------------------------------------------------
(* At most two documents                                                   *)

\* C22: after any sequence of add_document and delete_document calls (made
\* directly or through the document menu) the registry holds at most 2
\* documents; add_document on a registry that holds 2 raises and leaves the
\* registry and the files as they were; and the rag_docs list handed to
\* setup has at most 2 entries whenever rag_enabled is true.
C22_AtMostTwoDocuments ==
    /\ Len(registry) <= 2
    /\ (docOut # NotCalled /\ docOut.op = "add" /\ Len(docOut.before) = 2)
       => /\ ~docOut.res.ok
          /\ registry = docOut.before
    /\ (state # None /\ state.rag_enabled)
       => /\ Len(state.rag_docs.val) <= 2
          /\ state.rag_docs.val # <<>>

\* witness of C22: add_document(in/d.txt), an existing file of a supported
\* type, has been refused on a registry of two documents
C22_Witness ==
    /\ docOut # NotCalled
    /\ docOut.op = "add"
    /\ docOut.path = [dir |-> "in", name |-> "d", ext |-> ".txt"]
    /\ docOut.path \in disk
    /\ Len(docOut.before) = 2
    /\ ~docOut.res.ok
    /\ Len(registry) = 2

\* a second witness of C22: two registered documents were handed to setup
TwoDocumentsHandedOver ==
    /\ state # None
    /\ state.rag_enabled
    /\ Len(state.rag_docs.val) = 2

-----------------------------------------------------------------------------
(* The order of the progress messages                                      *)

\* the texts delivered so far, in order
Delivered == [i \in 1..Len(msgs) |-> msgs[i].text]

\* what an all-success run delivers, from first to last
SuccessMessages ==
    <<PlanStartMsg, ResearchStartMsg, ReportStartMsg, ConvertStartMsg(chan),
      CompleteMsg(chan.output_path), EndMsg>>

\* the start message of a stage
StartMsg(n, s) ==
    CASE n = "create_plan"      -> PlanStartMsg
      [] n = "perform_research" -> ResearchStartMsg
      [] n = "generate_report"  -> ReportStartMsg
      [] n = "convert_report"   -> ConvertStartMsg(s)

\* an all-success run delivers the six messages in stage order, once each
SuccessOrder ==
    (lastOp \in Runs /\ trace # <<>> /\ AllSucceeded /\ Truthy(chan.callback))
    => /\ Len(msgs) <= 6
       /\ \A i \in 1..Len(msgs) :
             i <= 4 => Delivered[i] = StartMsg(SuccessPath[i], chan)
       /\ pc = "idle" => Delivered = SuccessMessages

\* a stage calls its collaborator only after its start message was delivered:
\* the message is among the delivered ones, and a start message that made the
\* callback raise kept the collaborator from being called
StartBeforeCollaborator ==
    \A i \in Entries :
        (trace[i].node \in Stages /\ Truthy(trace[i].arg.callback))
        => /\ \E k \in 1..Len(msgs) :
                Delivered[k] = StartMsg(trace[i].node, trace[i].arg)
           /\ (trace[i].cbRaised /\ trace[i].raised) => ~trace[i].collabCalled

\* a run in which a stage's collaborator failed and every callback invocation
\* returned
FailingRun ==
    /\ RunEnded
    /\ NoCallbackRaised
    /\ \E i \in Entries : trace[i].collabFailed

\* in a failing run the last message is handle_error's, carrying state.error
FailingRunEndsWithErrorMsg ==
    (FailingRun /\ Truthy(chan.callback))
    => /\ msgs # <<>>
       /\ Truthy(chan.error)
       /\ Delivered[Len(msgs)] = ErrorMsg(chan)

\* C23: the progress callback is invoked in stage order: an all-success run
\* delivers, once each and in this order, the four start messages, the
\* completion message with the output path and the end message; each start
\* message is delivered before that stage's collaborator is called; in a
\* failing run the last message is the error handler's, carrying state.error.
C23_MessageOrder ==
    /\ SuccessOrder
    /\ StartBeforeCollaborator
    /\ FailingRunEndsWithErrorMsg

\* the part of C23 that holds: the order of an all-success run and the start
\* message before the collaborator
C23_SuccessMessageOrder == SuccessOrder /\ StartBeforeCollaborator

\* a failing run that ended with a message other than handle_error's
FailingRunEndsOtherwise ==
    /\ FailingRun
    /\ Truthy(chan.callback)
    /\ msgs # <<>>
    /\ Delivered[Len(msgs)] # ErrorMsg(chan)

\* an all-success run with a callback has ended
SuccessRunDelivered ==
    /\ RunEnded /\ AllSucceeded /\ Truthy(chan.callback) /\ Len(msgs) = 6

-----------------------------------------------------------------------------
(* The throttle of the external searches                                   *)

\* C24: the research stage issues its external search calls one after the
\* other, and between the end of an external search call and the start of the
\* next one, within one topic tag and across topic tags, at least 1 time unit
\* passes.
C24_Throttle ==
    /\ \A g \in extLog.gaps : g >= 1
    /\ extLog.n > 0 => extLog.lastEnd <= clock
    /\ rs # None => extLog.n <= Len(aspects) * Len(rs.fields)

\* witness of C24: with a credential, the searches of two topic tags are over,
\* ten external calls were made, the sixth being the first of the second tag
C24_Witness ==
    /\ rs # None
    /\ rs.at = "done"
    /\ Len(rs.fields) = 2
    /\ extLog.n = 10
    /\ extLog.gaps # {}

-----------------------------------------------------------------------------
(* What run hands back                                                     *)

\* C25: run returns a path only when the final state has the status
\* "completed" and no error, the path being the state's output_path; whenever
\* the final state has an error set, or a node of the run returned a state
\* with an error set, run raises and returns no path.
C25_PathOnlyWhenCompleted ==
    RunEnded
    => /\ outcome.kind \in {"returned", "raised"}
       /\ outcome.kind = "returned"
          => /\ chan.status = "completed"
             /\ chan.error = None
             /\ outcome.val = chan.output_path
             /\ Truthy(chan.output_path)
       /\ (chan.error # None \/ \E i \in Entries : trace[i].ret.error # None)
          => outcome.kind = "raised"

\* witness of C25: the completion message made the callback raise inside
\* convert_report after output_path was written; the final state holds both
\* the path and the error, and run has raised
C25_Witness ==
    /\ RunEnded
    /\ \E i \in Entries :
          /\ trace[i].node = "convert_report"
          /\ trace[i].cbRaised
          /\ Truthy(trace[i].ret.output_path)
    /\ Truthy(chan.output_path)
    /\ chan.error # None
    /\ outcome.kind = "raised"

-----------------------------------------------------------------------------
(* The status "error" and the error text                                   *)

\* the status of s is "error" exactly when its error is a non-empty text
ErrorIffStatus(s) == (s.status = "error") <=> Truthy(s.error)

\* C26: in every state observable between two nodes of a run, from the state
\* stored by setup, through the state every node is handed and the state it
\* returns, up to the final state, the status is "error" if and only if error
\* is non-empty.
C26_ErrorIffStatus ==
    /\ state # None => ErrorIffStatus(state)
    /\ chan # None => ErrorIffStatus(chan)
    /\ \A w \in writes : ErrorIffStatus(w.ret)
    /\ \A i \in Entries : ErrorIffStatus(trace[i].arg) /\ ErrorIffStatus(trace[i].ret)

\* witness of C26: the report stage failed, and handle_error is about to run
\* on the committed state, whose status is "error" and whose error is set
C26_Witness ==
    /\ pc = "running"
    /\ "handle_error" \in todo
    /\ trace[Len(trace)].node = "generate_report"
    /\ trace[Len(trace)].collabFailed
    /\ chan.status = "error"
    /\ Truthy(chan.error)

-----------------------------------------------------------------------------
(* The callback given to run stays                                         *)

\* a step that begins a run
RunBeginsNow == pc = "idle" /\ pc' = "running"

\* C27: a callback passed to run is written into the stored state and stays
\* there: a run given a callback stores it and changes no other field of the
\* stored state; a run given none leaves the stored state as it is and works
\* with the stored callback; nothing but setup and a run given a callback
\* changes the stored state; so a later run() without a callback and without a
\* new setup delivers its messages to the callback of the earlier run(cb).
C27_RunCallbackPersists ==
    /\ []((lastOp = "rerun" /\ state # None /\ runArg = None)
          => /\ chan.callback = state.callback
             /\ AllDeliveredTo(state.callback))
    /\ [][/\ (RunBeginsNow /\ Truthy(runArg'))
             => state' = [state EXCEPT !.callback = runArg']
          /\ (RunBeginsNow /\ ~Truthy(runArg'))
             => state' = state /\ chan'.callback = state.callback
          /\ (~RunBeginsNow /\ lastOp' \notin {"setup", "resetup"})
             => state' = state]_vars

\* witness of C27: setup was given cb1, and a second run, given no callback,
\* has delivered its messages to cb2, which an earlier run had been given
C27_Witness ==
    /\ lastOp = "rerun"
    /\ state # None
    /\ lastSetup.callback = Fn("cb1")
    /\ runArg = None
    /\ state.callback = Fn("cb2")
    /\ Len(msgs) >= 2
    /\ \A i \in 1..Len(msgs) : msgs[i].cb = "cb2"

-----------------------------------------------------------------------------
(* The plain workflow and the graph engine                                 *)

\* what a stage of the graph hands to its collaborator, given the state s
GraphCall(n, s) ==
    CASE n = "create_plan" ->
            Call("create_analysis_plan",
                 [fields |-> s.fields, format |-> s.format, language |-> s.language,
                  depth |-> s.depth, rag_enabled |-> s.rag_enabled,
                  rag_docs |-> s.rag_docs], TRUE)
      [] n = "perform_research" ->
            Call("research",
                 [fields |-> s.fields, depth |-> s.depth,
                  rag_enabled |-> s.rag_enabled, rag_docs |-> s.rag_docs], TRUE)
      [] n = "generate_report" ->
            Call("report",
                 [fields |-> s.fields, language |-> s.language, depth |-> s.depth,
                  research_data |-> s.research_results], TRUE)
      [] n = "convert_report" ->
            Call("convert", [markdown_content |-> s.report, format |-> s.format], TRUE)

\* the calls of the four collaborators among the calls of a plain run
StageCalls(calls) ==
    SelectSeq(calls, LAMBDA c : c.name \in {"create_analysis_plan", "research",
                                            "report", "convert"})

\* both workflows, set up with the same parameters, have run with every
\* collaborator and every callback invocation returning
BothSucceeded ==
    /\ prun # None
    /\ prun.at = "returned"
    /\ RunEnded
    /\ AllSucceeded

\* C28: on the all-success path the plain workflow and the graph engine, set
\* up with the same parameters, call the collaborators in the same order plan,
\* research, report, convert with the same arguments, the report stage being
\* given the research result and the converter the report text and the
\* format, and both return the path their converter produced.
C28_SameOnSuccess ==
    BothSucceeded
    => /\ Len(StageCalls(prun.calls)) = 4
       /\ Len(trace) = 5
       /\ \A i \in 1..4 :
             StageCalls(prun.calls)[i] = GraphCall(trace[i].node, trace[i].arg)
       /\ trace[3].arg.research_results = trace[2].ret.research_results
       /\ prun.research_results = trace[2].ret.research_results
       /\ trace[4].arg.report = trace[3].ret.report
       /\ prun.report = trace[3].ret.report
       /\ outcome = ReturnedPath(trace[4].ret.output_path)
       /\ prun.outcome = ReturnedPath(plain.output_path)
       /\ prun.outcome = outcome

\* witness of C28: both have returned a path, for a setup with RAG documents
C28_Witness ==
    /\ BothSucceeded
    /\ outcome.kind = "returned"
    /\ prun.outcome.kind = "returned"
    /\ Truthy(plain.rag_docs)
    /\ Len(prun.calls) = 6

-----------------------------------------------------------------------------
(* A failing collaborator of the plain workflow                            *)

\* the start message of the stage that makes the call
StageMsg(name) ==
    CASE name = "create_analysis_plan" -> PlanStartMsg
      [] name = "research"             -> ResearchStartMsg
      [] name = "report"               -> ReportStartMsg
      [] name = "convert"              -> ConvertStartMsg(plain)

\* C29: in the plain workflow's run the failure of a collaborator leaves run
\* as an exception: the failed call is the last call made, the stage's start
\* message is the last message delivered, and self.output_path is what it was
\* before the run.
C29_PlainFailurePropagates ==
    prun # None
    => \A i \in 1..Len(prun.calls) :
          ~prun.calls[i].ok
          => /\ i = Len(prun.calls)
             /\ prun.at = "raised"
             /\ prun.outcome.kind = "raised"
             /\ prun.outcome.exc # CallbackError
             /\ Truthy(prun.cb)
                => /\ prun.msgs # <<>>
                   /\ prun.msgs[Len(prun.msgs)].text = StageMsg(prun.calls[i].name)
             /\ plain.output_path = prun.before

\* witness of C29: after a run that returned a path, a second run failed in
\* the converter and self.output_path is still the first run's path
C29_Witness ==
    /\ prun # None
    /\ prun.at = "raised"
    /\ prun.before # None
    /\ prun.calls # <<>>
    /\ prun.calls[Len(prun.calls)].name = "convert"
    /\ ~prun.calls[Len(prun.calls)].ok
    /\ plain.output_path = prun.before

-----------------------------------------------------------------------------
(* Searching with a credential                                             *)

\* the items of the client's answer that can be read
UsableItems ==
    IF sIn.client.kind = "raises" THEN <<>>
    ELSE IF sIn.client.web_results.tag # "list" THEN <<>>
    ELSE SelectSeq(sIn.client.web_results.val,
                   LAMBDA item : item.title # Broken /\ item.url # Broken
                                 /\ item.description # Broken)

\* the dict search builds for an item
ResultOf(item) ==
    [title |-> IF item.title = Missing THEN Str(<<"no title">>) ELSE item.title,
     url |-> IF item.url = Missing THEN Str(<<>>) ELSE item.url,
     description |-> IF item.description = Missing THEN Str(<<>>)
                     ELSE item.description]

\* C30: search never raises and, for a count of at least 1, never returns an
\* empty list; with a credential configured the client is called once, and if
\* it raises or yields no usable web result search returns the first
\* min(count, 5) placeholders, otherwise the client's usable results.
C30_SearchNeverEmpty ==
    sOut # NotSearched
    => /\ sOut.ok
       /\ sOut.val.tag = "list"
       /\ sIn.count >= 1 => sOut.val.val # <<>>
       /\ Truthy(sIn.api_key)
          => /\ clientCalls = 1
             /\ (UsableItems = <<>> /\ sIn.count >= 0)
                => sOut.val = List(FirstPlaceholders(sIn.query,
                                       IF sIn.count < 5 THEN sIn.count ELSE 5))
             /\ UsableItems # <<>>
                => /\ Len(sOut.val.val) = Len(UsableItems)
                   /\ \A i \in 1..Len(UsableItems) :
                         sOut.val.val[i] = ResultOf(UsableItems[i])

\* witness of C30: with a credential, the client answered with one item that
\* cannot be read, and a search for six results has returned the five
\* placeholders
C30_Witness ==
    /\ sOut # NotSearched
    /\ Truthy(sIn.api_key)
    /\ sIn.client.kind = "response"
    /\ sIn.client.web_results.tag = "list"
    /\ Len(sIn.client.web_results.val) = 1
    /\ UsableItems = <<>>
    /\ sIn.count = 6
    /\ Len(sOut.val.val) = 5

\* a second witness of C30: one of the client's two items was read and
\* returned
ClientResultReturned ==
    /\ sOut # NotSearched
    /\ Truthy(sIn.api_key)
    /\ Len(UsableItems) = 1
    /\ sIn.client.web_results.tag = "list"
    /\ Len(sIn.client.web_results.val) = 2
    /\ Len(sOut.val.val) = 1

====
